---- MODULE Spec2Model ----
(***************************************************************************)
(* Model of the MCP tutorial clients and wrappers:                         *)
(*   - the tool-call dispatcher (_call_tool of the HTTP client,            *)
(*     _extract_content_from_mcp_result of the stdio and SSE clients),     *)
(*   - the LLM tool-use loop (process_query of the three Gemini clients),  *)
(*   - the JSON-RPC request numbering of a session (HTTP client, wrapper), *)
(*   - the HTTP wrappers and their subprocess line protocol (bridge),      *)
(*   - the lifecycle of a main: connect, serve or chat, cleanup,           *)
(*   - the schema adapter (_clean_schema_for_gemini),                      *)
(*   - the NEO date range of fallback_parse_query and of 'This Week',      *)
(*   - chat_loop of the Gemini clients,                                    *)
(*   - stop_server of the wrappers,                                        *)
(*   - call_tool of the GUI client run by several worker threads,          *)
(*   - send_message of the SSE wrapper run by concurrent handlers.         *)
(***************************************************************************)
EXTENDS Integers, Sequences, FiniteSets, TLC

VARIABLES
    \* ---- dispatcher, applied as a pure function (SpecDispatch)
    d_variant,      \* "http": _call_tool; "local": session.call_tool + _extract
    d_response,     \* the JSON-RPC response the server gave to tools/call
    d_outcome,      \* NotRun, or the outcome of the dispatch
    \* ---- process_query (Spec)
    variant,        \* which client: "local", "http" or "sse"
    pc,             \* position of process_query
    attempt,        \* the loop variable `attempt` of the running retry loop
    response,       \* the local variable `response`
    parts,          \* the parts the outer for loop iterates over
    part_idx,       \* position of the outer for loop (1-based)
    final_text,     \* the list final_text, a sequence of lines
    tool_name,      \* the local variable tool_name
    result,         \* the value process_query returned, or NoResult
    raised,         \* the exception that left process_query, or NoExc
    send_no,        \* number of the LLM send in progress (1 = initial send)
    events,         \* history: every LLM attempt, sleep, dispatch in order
    \* ---- request numbering of a session (SpecSession)
    request_id,     \* MCPGeminiHTTPClient.request_id
    posted,         \* messages the client POSTed to /call, in send order
    initialized,    \* the client's initialize request was answered without error
    w_started,      \* MCPServerWrapper.start_server has returned
    w_request_id,   \* MCPServerWrapper.request_id
    w_written,      \* messages the wrapper wrote to the subprocess's stdin
    \* ---- HTTP wrapper and its subprocess (SpecBridge)
    b_variant,      \* "nasa": nasa_http_server_sync; "sync": mcp_http_server_sync_remote
    b_pc,           \* "stopped", "reading" (a send waits for a line), "serving", "failed"
    b_request_id,   \* MCPServerWrapper.request_id of the NASA wrapper
    b_caller,       \* who called the send in progress: "start" or "http"
    b_req,          \* the HTTP request being handled, or NoRequest
    b_msg,          \* the message the send in progress wrote, with its number
    b_waited,       \* time the send in progress has waited for a line
    b_stdin,        \* lines written to the subprocess and not yet consumed by it
    b_stdout,       \* lines the subprocess wrote and the wrapper has not read
    b_closed,       \* the subprocess has closed its output stream
    b_sends,        \* number of messages written to the subprocess so far
    b_done,         \* the last completed HTTP exchange, or NoExchange
    \* ---- lifecycle of a main (SpecLifecycle)
    c_variant,      \* "http", "local": Gemini clients; "wrapper": NASA HTTP wrapper
    c_pc,           \* position of main
    c_called,       \* connect (start_server for the wrapper) has been called
    c_transport,    \* "none", "open" or "closed"
    c_established,  \* the transport has been established (probe answered, process spawned)
    c_sent,         \* messages sent on the session, in send order
    c_init_ok,      \* the initialize request was answered without error
    c_cleanups,     \* number of times cleanup (stop_server) has run
    c_raised,       \* an exception is leaving the try block of main
    \* ---- schema adapter, applied as a pure function (SpecClean)
    k_schema,       \* the schema S handed to _clean_schema_for_gemini
    k_once,         \* NotRun, or clean(S)
    k_twice,        \* NotRun, or clean(clean(S))
    \* ---- NEO date range synthesized from a query (SpecRange)
    n_today,        \* date.today()
    n_query,        \* what the patterns of the parser find in the query
    n_range,        \* NotRun, or the start_date and end_date synthesized
    \* ---- chat_loop (SpecChat)
    h_pc,           \* "reading", "processing" or "ended"
    h_lines,        \* what input() gave, in order: lines, and "EOF" for EOFError
    h_printed,      \* what the loop printed, in order
    \* ---- stop_server of the wrappers (SpecStop)
    t_variant,      \* "nasa", "sync", "async" or "sse"
    t_pc,           \* "serving", "wait", "wait_killed" or "returned"
    t_proc,         \* the subprocess: "none", "running" or "exited"
    t_ignores,      \* whether the subprocess ignores the terminate request
    t_waited,       \* seconds stop_server has waited for the subprocess
    t_signals,      \* the signals sent to the subprocess, in order
    \* ---- worker threads of the GUI sharing one NASAMCPClient (SpecGui)
    g_request_id,   \* NASAMCPClient.request_id
    g_pc,           \* each worker thread's position in call_tool
    g_tmp,          \* each worker thread's value loaded for `+= 1`
    g_sent,         \* the tools/call messages built, in order
    g_clicks,       \* user actions so far
    \* ---- concurrent handlers of the SSE wrapper (SpecSse)
    e_pc,           \* each handler's position in send_message
    e_kind,         \* each handler's endpoint: "none", "sse" or "call"
    e_wrote,        \* each handler's message: the number of its line on stdin
    e_got,          \* each handler's outcome of readline()
    e_stdin,        \* lines written to the subprocess and not yet read by it
    e_stdout,       \* lines written by the subprocess and not yet consumed
    e_waiter,       \* the handler suspended in readline(), or "none"
    e_writes        \* lines written to the subprocess so far

dvars == <<d_variant, d_response, d_outcome>>
qvars == <<variant, pc, attempt, response, parts, part_idx, final_text,
           tool_name, result, raised, send_no, events>>
svars == <<request_id, posted, initialized, w_started, w_request_id, w_written>>
bvars == <<b_variant, b_pc, b_request_id, b_caller, b_req, b_msg, b_waited,
           b_stdin, b_stdout, b_closed, b_sends, b_done>>
cvars == <<c_variant, c_pc, c_called, c_transport, c_established, c_sent,
           c_init_ok, c_cleanups, c_raised>>
kvars == <<k_schema, k_once, k_twice>>
nvars == <<n_today, n_query, n_range>>
hvars == <<h_pc, h_lines, h_printed>>
tvars == <<t_variant, t_pc, t_proc, t_ignores, t_waited, t_signals>>
gvars == <<g_request_id, g_pc, g_tmp, g_sent, g_clicks>>
evars == <<e_pc, e_kind, e_wrote, e_got, e_stdin, e_stdout, e_waiter, e_writes>>
xvars == <<nvars, hvars, tvars, gvars, evars>>
oldvars == <<dvars, qvars, svars, bvars, cvars, kvars>>
\* for each of these groups, the variables outside it
OthersN == <<oldvars, hvars, tvars, gvars, evars>>
OthersH == <<oldvars, nvars, tvars, gvars, evars>>
OthersT == <<oldvars, nvars, hvars, gvars, evars>>
OthersG == <<oldvars, nvars, hvars, tvars, evars>>
OthersE == <<oldvars, nvars, hvars, tvars, gvars>>
vars == <<dvars, qvars, svars, bvars, cvars, kvars, xvars>>

-----------------------------------------------------------------------------
(* JSON values, as Python holds them after json.loads / response.json().   *)

JNull == [t |-> "null"]
\* a number, held by its numeral
JNum(n) == [t |-> "num", v |-> n]
JStr(s) == [t |-> "str", v |-> s]
JList(xs) == [t |-> "list", v |-> xs]
\* a dict: its keys in insertion order and the value of each
JDict(ks, vs) == [t |-> "dict", k |-> ks, v |-> vs]

IsDict(j) == j.t = "dict"
IsList(j) == j.t = "list"
IsString(j) == j.t = "str"

\* `key in d` for a dict d
HasKey(d, key) == \E i \in 1..Len(d.k) : d.k[i] = key
\* d[key] for a key that is present
GetKey(d, key) == d.v[CHOOSE i \in 1..Len(d.k) : d.k[i] = key]
\* d.get(key, default)
DictGet(d, key, default) == IF HasKey(d, key) THEN GetKey(d, key) ELSE default

RECURSIVE PyRepr(_)
RECURSIVE ReprItems(_, _)
RECURSIVE ReprPairs(_, _, _)
\* repr() of the elements of a list from position i on, separated by ", "
ReprItems(xs, i) ==
    IF i > Len(xs) THEN ""
    ELSE PyRepr(xs[i]) \o (IF i < Len(xs) THEN ", " ELSE "") \o ReprItems(xs, i + 1)
\* 'key': repr(value) of the entries of a dict from position i on
ReprPairs(ks, vs, i) ==
    IF i > Len(ks) THEN ""
    ELSE "'" \o ks[i] \o "': " \o PyRepr(vs[i])
         \o (IF i < Len(ks) THEN ", " ELSE "") \o ReprPairs(ks, vs, i + 1)
\* Python's repr() of a JSON value
PyRepr(j) ==
    CASE j.t = "null" -> "None"
      [] j.t = "num"  -> j.v
      [] j.t = "str"  -> "'" \o j.v \o "'"
      [] j.t = "list" -> "[" \o ReprItems(j.v, 1) \o "]"
      [] j.t = "dict" -> "{" \o ReprPairs(j.k, j.v, 1) \o "}"
\* Python's str(): a string is itself, anything else is its repr
PyStr(j) == IF j.t = "str" THEN j.v ELSE PyRepr(j)

-----------------------------------------------------------------------------
(* Outcomes of a call: a returned value or a raised exception.             *)

NotRun == [kind |-> "not_run"]
Returned(val) == [kind |-> "returned", value |-> val]
Raised(msg) == [kind |-> "raised", msg |-> msg]

-----------------------------------------------------------------------------
(* Tool Call Dispatcher.                                                   *)

\* "\n".join(xs) from position i on; every element is a Python str
RECURSIVE JoinFrom(_, _)
JoinFrom(xs, i) ==
    IF i > Len(xs) THEN ""
    ELSE xs[i] \o (IF i < Len(xs) THEN "\n" ELSE "") \o JoinFrom(xs, i + 1)
JoinLines(xs) == JoinFrom(xs, 1)

\* MCPGeminiHTTPClient._call_tool from `result = response.json()` on: the value
\* returned (a JSON value: whatever first_content["text"] holds, or a str) or
\* the exception raised
HttpResultFallback(tool_result) == Returned(JStr(PyStr(tool_result)))
HttpExtract(tool_result) ==
    IF ~IsDict(tool_result)
    THEN Raised("AttributeError: object has no attribute 'get'")
    ELSE LET content == DictGet(tool_result, "content", JList(<<>>))
         IN IF IsList(content) /\ content.v # <<>>
                /\ IsDict(content.v[1]) /\ HasKey(content.v[1], "text")
            THEN Returned(GetKey(content.v[1], "text"))
            ELSE HttpResultFallback(tool_result)
HttpErrorCheck(resp) == HasKey(resp, "error")
CallToolHttp(resp) ==
    IF ~IsDict(resp)
    THEN Raised("TypeError: response is not an object")
    ELSE IF HttpErrorCheck(resp)
         THEN Raised("Tool call failed: " \o PyStr(GetKey(resp, "error")))
         ELSE HttpExtract(DictGet(resp, "result", JDict(<<>>, <<>>)))

\* hasattr(obj, name) for an object held as a dict of its attributes
HasAttr(obj, name) == IsDict(obj) /\ HasKey(obj, name)

\* the text_parts list built by _extract_content_from_mcp_result
ItemText(item) == IF HasAttr(item, "text") THEN GetKey(item, "text")
                  ELSE JStr(PyStr(item))
TextParts(content) == [i \in 1..Len(content.v) |-> ItemText(content.v[i])]
JoinTextParts(tp) ==
    IF \A i \in 1..Len(tp) : IsString(tp[i])
    THEN Returned(JStr(JoinLines([i \in 1..Len(tp) |-> tp[i].v])))
    ELSE Raised("TypeError: sequence item: expected str instance")
\* MCPGeminiClient / MCPGeminiRemoteClient._extract_content_from_mcp_result
ExtractContent(res) ==
    IF HasAttr(res, "content")
    THEN LET content == GetKey(res, "content")
         IN IF IsList(content) THEN JoinTextParts(TextParts(content))
            ELSE IF HasAttr(content, "text")
                 THEN Returned(GetKey(content, "text"))
                 ELSE Returned(JStr(PyStr(content)))
    ELSE Returned(JStr(PyStr(res)))
\* session.call_tool of the mcp library as the stdio and SSE clients call it:
\* a JSON-RPC error response is raised as an exception, otherwise the
\* result object is returned
SessionCallTool(resp) ==
    IF HasKey(resp, "error")
    THEN Raised(PyStr(DictGet(GetKey(resp, "error"), "message", JStr(""))))
    ELSE Returned(GetKey(resp, "result"))
\* call_tool followed by _extract_content_from_mcp_result, as process_query
\* runs them
CallToolLocal(resp) ==
    LET r == SessionCallTool(resp)
    IN IF r.kind = "raised" THEN r ELSE ExtractContent(r.value)

\* the dispatcher of a client variant
Dispatch(v, resp) == IF v = "http" THEN CallToolHttp(resp) ELSE CallToolLocal(resp)

-----------------------------------------------------------------------------
(* Inputs of the dispatcher: the responses a server may give to tools/call. *)

MaxItems == 2

TextItem(s) == JDict(<<"type", "text">>, <<JStr("text"), JStr(s)>>)
NullTextItem == JDict(<<"type", "text">>, <<JStr("text"), JNull>>)
ImageItem == JDict(<<"type", "data">>, <<JStr("image"), JStr("QUJD")>>)
ErrorPayload == JDict(<<"code", "message">>, <<JNum("-32602"), JStr("Unknown tool")>>)

\* items of a validated CallToolResult (stdio, SSE): text or non-text content
ValidItems == {TextItem("X"), TextItem("Y"), TextItem(""), ImageItem}
\* items of a raw JSON response (HTTP): also a null text and a bare string
RawItems == ValidItems \cup {NullTextItem, JStr("raw")}

SeqsUpTo(S, n) == UNION {[1..k -> S] : k \in 0..n}

ResultOf(content) == JDict(<<"content">>, <<content>>)
OkResponse(res) == JDict(<<"jsonrpc", "id", "result">>, <<JStr("2.0"), JNum("3"), res>>)
ErrorResponse == JDict(<<"jsonrpc", "id", "error">>, <<JStr("2.0"), JNum("3"), ErrorPayload>>)
NoResultResponse == JDict(<<"jsonrpc", "id">>, <<JStr("2.0"), JNum("3")>>)

LocalToolResponses ==
    {OkResponse(ResultOf(JList(xs))) : xs \in SeqsUpTo(ValidItems, MaxItems)}
        \cup {ErrorResponse}
HttpToolResponses ==
    {OkResponse(ResultOf(JList(xs))) : xs \in SeqsUpTo(RawItems, MaxItems)}
        \cup {OkResponse(ResultOf(c)) : c \in {JNull, JStr("text"), TextItem("X")}}
        \cup {OkResponse(r) : r \in {JNull, JStr("ok"), JList(<<>>), JDict(<<>>, <<>>)}}
        \cup {ErrorResponse, NoResultResponse,
              JDict(<<"jsonrpc", "id", "result", "error">>,
                    <<JStr("2.0"), JNum("3"), ResultOf(JList(<<TextItem("X")>>)), JNull>>)}
ToolResponses(v) == IF v = "http" THEN HttpToolResponses ELSE LocalToolResponses

-----------------------------------------------------------------------------
(* LLM Tool-Use Loop: process_query.                                       *)

max_retries == 3
base_delay == 2

\* bound on the parts of the LLM's response to the query
MaxParts == 2

\* a part of an LLM response: its text ("" when it has none) and its
\* function call (name "" when it has none)
TextPart(s) == [text |-> s, function_call |-> "", args |-> JDict(<<>>, <<>>)]
EmptyPart == TextPart("")
FcPart(name) ==
    [text |-> "", function_call |-> name,
     args |-> JDict(<<"date">>, <<JStr("2029-04-13")>>)]
PartSet == {TextPart("Hello"), TextPart("World"), EmptyPart,
            FcPart("get_apod"), FcPart("get_neo")}
\* responses to the query; <<>> is a response without candidates or parts
QueryResponses == SeqsUpTo(PartSet, MaxParts)
\* responses to a function response
ContResponses == {<<>>, <<TextPart("Done")>>, <<TextPart("More"), FcPart("get_neo")>>}

\* exceptions of chat.send_message: the text of str(e), and whether it
\* contains "429" or, lower-cased, "quota"
LlmErrors ==
    {[text |-> "429 Too Many Requests", has429 |-> TRUE, hasQuota |-> FALSE],
     [text |-> "Quota exceeded", has429 |-> FALSE, hasQuota |-> TRUE],
     [text |-> "500 Internal error", has429 |-> FALSE, hasQuota |-> FALSE]}

\* no response at all: the transport fails while the request is sent
TransportFault == [t |-> "fault"]
\* responses of the server to the tools/call of a query
QueryToolResponses(v) ==
    {OkResponse(ResultOf(JList(<<TextItem("X")>>))), ErrorResponse, TransportFault}
        \cup (IF v = "http" THEN {OkResponse(JNull)} ELSE {})

\* lines of final_text
TextLine(s) == [kind |-> "text", text |-> s]
TraceLine(name, args) == [kind |-> "trace", tool |-> name, args |-> args]
ErrorLine(name, msg) == [kind |-> "error", tool |-> name, msg |-> msg]
RateLimitLine == [kind |-> "rate_limit"]

\* the string each line is in the client variant v
Render(v, line) ==
    CASE line.kind = "text" -> line.text
      [] line.kind = "trace" ->
            (IF v = "local" THEN "[Calling tool " ELSE "[Calling remote tool ")
                \o line.tool \o " with args " \o PyStr(line.args) \o "]"
      [] line.kind = "error" ->
            (IF v = "local" THEN "Error executing tool "
                            ELSE "Error executing remote tool ")
                \o line.tool \o ": " \o line.msg
      [] line.kind = "rate_limit" ->
            "Rate limit exceeded when processing function response."
RateLimitExceeded ==
    "Rate limit exceeded after 3 attempts. Please try again later or upgrade your Gemini API plan."
NoResponse == "No response received"

\* `"429" in str(e) or "quota" in str(e).lower()`
IsRateLimit(er) == er.has429 \/ er.hasQuota
\* a retry loop that retries once more
MayRetryOnceMore(a) == a < max_retries
\* `attempt < max_retries - 1`
MayRetry(a) == a < max_retries - 1
\* a wait that does not grow
DelayConstant(a) == base_delay
\* `base_delay * (2 ** attempt)`
Delay(a) == base_delay * (2 ^ a)

\* `hasattr(part, 'text') and part.text`
IsText(part) == part.text # ""
\* `elif hasattr(part, 'function_call') and part.function_call`
IsFunctionCall(part) == ~IsText(part) /\ part.function_call # ""

\* a continuation loop that reads the response bound before the send
AppendTextsStale(ft, resp) ==
    LET tx == SelectSeq(response, LAMBDA p : p.text # "")
    IN ft \o [i \in 1..Len(tx) |-> TextLine(tx[i].text)]
\* a continuation whose texts are dropped
AppendTextsNone(ft, resp) == ft
\* the loop "Add the final response": the non-empty texts of resp, appended
RECURSIVE AppendTexts(_, _)
AppendTexts(ft, resp) ==
    IF resp = <<>> THEN ft
    ELSE AppendTexts(IF IsText(Head(resp)) THEN Append(ft, TextLine(Head(resp).text))
                     ELSE ft,
                     Tail(resp))
\* a text put in front of the accumulated lines
AppendPartTextFirst(ft, part) == <<TextLine(part.text)>> \o ft
\* `final_text.append(part.text)`
AppendPartText(ft, part) == Append(ft, TextLine(part.text))
\* the last attempt of the continuation send was rate-limited: the message is
\* appended, the retry loop is left, and the loop over `response` runs
ContinuationGivenUp(ft, resp) == AppendTexts(Append(ft, RateLimitLine), resp)
\* a tool failure that is swallowed
ToolFailedSilently(ft, name, msg) == ft
\* `except Exception as e` of the tool call
ToolFailed(ft, name, msg) == Append(ft, ErrorLine(name, msg))
\* `"\n".join(final_text) if final_text else "No response received"`
ReturnValue(v, ft) ==
    IF ft # <<>> THEN JoinLines([i \in 1..Len(ft) |-> Render(v, ft[i])])
    ELSE NoResponse

AttemptEvent(n, kind, outcome) ==
    [e |-> "attempt", send |-> n, kind |-> kind, outcome |-> outcome]
SleepEvent(n, d) == [e |-> "sleep", send |-> n, delay |-> d]
DispatchEvent(name, ok, msg) == [e |-> "dispatch", tool |-> name, ok |-> ok, msg |-> msg]
\* what the error of an attempt is: text with "429" or "quota", or another
ErrorClass(er) == IF er.has429 \/ er.hasQuota THEN "rate_limit" ELSE "error"

NoExc == ""

QInit ==
    /\ variant \in {"local", "http", "sse"}
    /\ pc = "start"
    /\ attempt = 0
    /\ response = <<>>
    /\ parts = <<>>
    /\ part_idx = 1
    /\ final_text = <<>>
    /\ tool_name = ""
    /\ result = NotRun
    /\ raised = NoExc
    /\ send_no = 0
    /\ events = <<>>

\* `await self._list_tools()` / `await self.session.list_tools()`
ListToolsOk ==
    /\ UNCHANGED <<dvars, svars, bvars, cvars, kvars, xvars>>
    /\ pc = "start"
    /\ pc' = "initial_send"
    /\ attempt' = 0
    /\ send_no' = 1
    /\ UNCHANGED <<variant, response, parts, part_idx, final_text, tool_name,
                   result, raised, events>>
ListToolsFails ==
    /\ UNCHANGED <<dvars, svars, bvars, cvars, kvars, xvars>>
    /\ pc = "start"
    /\ pc' = "raised"
    /\ raised' = "List tools failed"
    /\ UNCHANGED <<variant, attempt, response, parts, part_idx, final_text,
                   tool_name, result, send_no, events>>

\* giving up by raising instead of returning
InitialGivenUpRaises == [pc |-> "raised", result |-> NotRun, raised |-> RateLimitExceeded]
\* the last attempt of the initial send was rate-limited:
\* `return f"Rate limit exceeded after {max_retries} attempts. ..."`
InitialGivenUp == [pc |-> "done", result |-> Returned(RateLimitExceeded), raised |-> NoExc]

\* `response = chat.send_message(query, tools=tools_param)` succeeds
InitialSendOk ==
    /\ UNCHANGED <<dvars, svars, bvars, cvars, kvars, xvars>>
    /\ pc = "initial_send"
    /\ \E resp \in QueryResponses :
        /\ response' = resp
        /\ parts' = resp
    /\ part_idx' = 1
    /\ final_text' = <<>>
    /\ pc' = "parts"
    /\ events' = Append(events, AttemptEvent(send_no, "initial", "ok"))
    /\ UNCHANGED <<variant, attempt, tool_name, result, raised, send_no>>
\* it raises an exception
InitialSendFails ==
    /\ UNCHANGED <<dvars, svars, bvars, cvars, kvars, xvars>>
    /\ pc = "initial_send"
    /\ \E er \in LlmErrors :
        LET ev == Append(events, AttemptEvent(send_no, "initial", ErrorClass(er)))
        IN IF IsRateLimit(er)
           THEN IF MayRetry(attempt)
                THEN /\ events' = Append(ev, SleepEvent(send_no, Delay(attempt)))
                     /\ attempt' = attempt + 1
                     /\ UNCHANGED <<pc, result, raised>>
                ELSE /\ events' = ev
                     /\ result' = InitialGivenUp.result
                     /\ raised' = InitialGivenUp.raised
                     /\ pc' = InitialGivenUp.pc
                     /\ UNCHANGED attempt
           ELSE /\ events' = ev
                /\ raised' = er.text
                /\ pc' = "raised"
                /\ UNCHANGED <<attempt, result>>
    /\ UNCHANGED <<variant, response, parts, part_idx, final_text, tool_name, send_no>>

\* a loop that takes its part from the latest response
CurrentPartLatest ==
    IF part_idx <= Len(response) THEN response[part_idx] ELSE parts[part_idx]
\* `for part in response.candidates[0].content.parts`: the parts of the
\* response to the query, also after `response` has been bound anew
CurrentPart == parts[part_idx]
InPartLoop == pc = "parts" /\ part_idx <= Len(parts)

\* `if hasattr(part, 'text') and part.text: final_text.append(part.text)`
PartText ==
    /\ UNCHANGED <<dvars, svars, bvars, cvars, kvars, xvars>>
    /\ InPartLoop
    /\ IsText(CurrentPart)
    /\ final_text' = AppendPartText(final_text, CurrentPart)
    /\ part_idx' = part_idx + 1
    /\ UNCHANGED <<variant, pc, attempt, response, parts, tool_name, result,
                   raised, send_no, events>>
\* a part that is neither a text nor a function call
PartSkipped ==
    /\ UNCHANGED <<dvars, svars, bvars, cvars, kvars, xvars>>
    /\ InPartLoop
    /\ ~IsText(CurrentPart) /\ ~IsFunctionCall(CurrentPart)
    /\ part_idx' = part_idx + 1
    /\ UNCHANGED <<variant, pc, attempt, response, parts, final_text, tool_name,
                   result, raised, send_no, events>>

\* the tools/call of the dispatcher alone: what precedes the trace line
ToolCallOutcome(v, resp) ==
    IF resp = TransportFault THEN Raised("All connection attempts failed")
    ELSE IF v = "http" THEN CallToolHttp(resp) ELSE SessionCallTool(resp)
\* what follows the trace line, up to the function response: the extraction
\* of the stdio and SSE clients (the HTTP client has extracted already)
AfterTraceOutcome(v, called) ==
    IF v = "http" THEN called ELSE ExtractContent(called.value)

\* the function-call branch up to the continuation send: the tool call, the
\* trace line, the extraction, and the `except` of all of them
ToolCall ==
    /\ UNCHANGED <<dvars, svars, bvars, cvars, kvars, xvars>>
    /\ InPartLoop
    /\ IsFunctionCall(CurrentPart)
    /\ tool_name' = CurrentPart.function_call
    /\ \E resp \in QueryToolResponses(variant) :
        LET name == CurrentPart.function_call
            called == ToolCallOutcome(variant, resp)
            traced == Append(final_text, TraceLine(name, CurrentPart.args))
        IN IF called.kind = "raised"
           THEN /\ final_text' = ToolFailed(final_text, name, called.msg)
                /\ events' = Append(events, DispatchEvent(name, FALSE, called.msg))
                /\ part_idx' = part_idx + 1
                /\ UNCHANGED <<pc, attempt, send_no>>
           ELSE /\ events' = Append(events, DispatchEvent(name, TRUE, ""))
                /\ IF AfterTraceOutcome(variant, called).kind = "raised"
                   THEN /\ final_text' =
                             ToolFailed(traced, name, AfterTraceOutcome(variant, called).msg)
                        /\ part_idx' = part_idx + 1
                        /\ UNCHANGED <<pc, attempt, send_no>>
                   ELSE /\ final_text' = traced
                        /\ pc' = "cont_send"
                        /\ attempt' = 0
                        /\ send_no' = send_no + 1
                        /\ UNCHANGED part_idx
    /\ UNCHANGED <<variant, response, parts, result, raised>>

\* `response = chat.send_message([function_response], tools=tools_param)`
\* succeeds; the texts of the new response are appended
ContinuationSendOk ==
    /\ UNCHANGED <<dvars, svars, bvars, cvars, kvars, xvars>>
    /\ pc = "cont_send"
    /\ \E resp \in ContResponses :
        /\ response' = resp
        /\ final_text' = AppendTexts(final_text, resp)
    /\ events' = Append(events, AttemptEvent(send_no, "continuation", "ok"))
    /\ part_idx' = part_idx + 1
    /\ pc' = "parts"
    /\ UNCHANGED <<variant, attempt, parts, tool_name, result, raised, send_no>>
\* it raises an exception
ContinuationSendFails ==
    /\ UNCHANGED <<dvars, svars, bvars, cvars, kvars, xvars>>
    /\ pc = "cont_send"
    /\ \E er \in LlmErrors :
        LET ev == Append(events, AttemptEvent(send_no, "continuation", ErrorClass(er)))
        IN IF IsRateLimit(er)
           THEN IF MayRetry(attempt)
                THEN /\ events' = Append(ev, SleepEvent(send_no, Delay(attempt)))
                     /\ attempt' = attempt + 1
                     /\ UNCHANGED <<pc, final_text, part_idx>>
                ELSE /\ events' = ev
                     /\ final_text' = ContinuationGivenUp(final_text, response)
                     /\ part_idx' = part_idx + 1
                     /\ pc' = "parts"
                     /\ UNCHANGED attempt
           ELSE \* `raise e`, caught by the `except Exception` of the tool call
                /\ events' = ev
                /\ final_text' = ToolFailed(final_text, tool_name, er.text)
                /\ part_idx' = part_idx + 1
                /\ pc' = "parts"
                /\ UNCHANGED attempt
    /\ UNCHANGED <<variant, response, parts, tool_name, result, raised, send_no>>

\* `return "\n".join(final_text) if final_text else "No response received"`
Return ==
    /\ UNCHANGED <<dvars, svars, bvars, cvars, kvars, xvars>>
    /\ pc = "parts"
    /\ part_idx > Len(parts)
    /\ result' = Returned(ReturnValue(variant, final_text))
    /\ pc' = "done"
    /\ UNCHANGED <<variant, attempt, response, parts, part_idx, final_text,
                   tool_name, raised, send_no, events>>

DIdle == d_variant = "http" /\ d_response = JNull /\ d_outcome = NotRun
SIdle == /\ request_id = 0 /\ posted = <<>> /\ initialized = FALSE
         /\ w_started = FALSE /\ w_request_id = 0 /\ w_written = <<>>
QIdle == /\ variant = "local" /\ pc = "idle" /\ attempt = 0 /\ response = <<>>
         /\ parts = <<>> /\ part_idx = 1 /\ final_text = <<>> /\ tool_name = ""
         /\ result = NotRun /\ raised = NoExc /\ send_no = 0 /\ events = <<>>

\* the no-request, no-message and no-exchange marks of the bridge
NoRequest == [verb |-> "none"]
NoMessage == [n |-> 0]
NoExchange == [req |-> NoRequest]
BIdle == /\ b_variant = "nasa" /\ b_pc = "stopped" /\ b_request_id = 0
         /\ b_caller = "none" /\ b_req = NoRequest /\ b_msg = NoMessage
         /\ b_waited = 0 /\ b_stdin = <<>> /\ b_stdout = <<>>
         /\ b_closed = FALSE /\ b_sends = 0 /\ b_done = NoExchange
CIdle == /\ c_variant = "http" /\ c_pc = "main" /\ c_called = FALSE
         /\ c_transport = "none" /\ c_established = FALSE /\ c_sent = <<>>
         /\ c_init_ok = FALSE /\ c_cleanups = 0 /\ c_raised = FALSE
KIdle == k_schema = JNull /\ k_once = NotRun /\ k_twice = NotRun
\* a calendar date
Date(y, m, d) == [y |-> y, m |-> m, d |-> d]
NIdle == n_today = Date(2029, 4, 13) /\ n_query = [kind |-> "none"] /\ n_range = NotRun
HIdle == h_pc = "reading" /\ h_lines = <<>> /\ h_printed = <<>>
TIdle == /\ t_variant = "nasa" /\ t_pc = "serving" /\ t_proc = "none"
         /\ t_ignores = FALSE /\ t_waited = 0 /\ t_signals = <<>>
\* the worker threads of the GUI, named by the action that starts them
Threads == {"get_apod", "search_mars_photos", "search_neos"}
GIdle == /\ g_request_id = 0 /\ g_pc = [t \in Threads |-> "idle"]
         /\ g_tmp = [t \in Threads |-> 0] /\ g_sent = <<>> /\ g_clicks = 0
\* the request handlers the event loop of the SSE wrapper runs
Handlers == {"h1", "h2"}
NoLine == [has |-> "nothing"]
EIdle == /\ e_pc = [h \in Handlers |-> "idle"] /\ e_kind = [h \in Handlers |-> "none"]
         /\ e_wrote = [h \in Handlers |-> 0] /\ e_got = [h \in Handlers |-> NoLine]
         /\ e_stdin = <<>> /\ e_stdout = <<>> /\ e_waiter = "none" /\ e_writes = 0
XIdle == NIdle /\ HIdle /\ TIdle /\ GIdle /\ EIdle
OldIdle == QIdle /\ DIdle /\ SIdle /\ BIdle /\ CIdle /\ KIdle
Init == QInit /\ DIdle /\ SIdle /\ BIdle /\ CIdle /\ KIdle /\ XIdle
Next ==
    \/ ListToolsOk
    \/ ListToolsFails
    \/ InitialSendOk
    \/ InitialSendFails
    \/ PartText
    \/ PartSkipped
    \/ ToolCall
    \/ ContinuationSendOk
    \/ ContinuationSendFails
    \/ Return
Spec == Init /\ [][Next]_vars

-----------------------------------------------------------------------------
(* Properties of process_query.                                            *)

IsAttempt(ev) == ev.e = "attempt"
IsDispatch(ev) == ev.e = "dispatch"
\* the attempts of send n, and the waits slept for it, in order
AttemptsOf(n) == SelectSeq(events, LAMBDA ev : ev.e = "attempt" /\ ev.send = n)
SleepsOf(n) ==
    LET sl == SelectSeq(events, LAMBDA ev : ev.e = "sleep" /\ ev.send = n)
    IN [i \in 1..Len(sl) |-> sl[i].delay]
\* send n is over: a later send has begun, or no send is in progress
SendOver(n) == n < send_no \/ (n = send_no /\ pc \notin {"initial_send", "cont_send"})
\* every attempt of send n failed with a rate-limit error
AllRateLimited(n) ==
    /\ SendOver(n)
    /\ AttemptsOf(n) # <<>>
    /\ \A i \in 1..Len(AttemptsOf(n)) : AttemptsOf(n)[i].outcome = "rate_limit"
CountLines(kind) == Cardinality({i \in 1..Len(final_text) : final_text[i].kind = kind})
LastEvent == events[Len(events)]

\* C1: a send whose attempts all fail with a rate-limit error is attempted
\* exactly 3 times, and exactly one terminal rate-limit message is produced
\* for it: the returned message for the initial send, one appended line for
\* each continuation send.
C1_ThreeAttemptsOneMessage ==
    /\ \A n \in 1..send_no : AllRateLimited(n) => Len(AttemptsOf(n)) = 3
    /\ (result = Returned(RateLimitExceeded)) <=> AllRateLimited(1)
    /\ CountLines("rate_limit") = Cardinality({n \in 2..send_no : AllRateLimited(n)})
C1_Witness ==
    /\ pc = "done"
    /\ send_no = 2
    /\ AllRateLimited(2)
    /\ CountLines("rate_limit") = 1

\* C2 as stated: the waits of a send whose 3 attempts are all rate-limited
\* are 2s, 4s and 8s.
C2_WaitsTwoFourEight ==
    \A n \in 1..send_no : AllRateLimited(n) => SleepsOf(n) = <<2, 4, 8>>
\* C2 amended: the waits are 2s and 4s, in that order; no wait follows the
\* third failed attempt.
C2_WaitsTwoFour ==
    \A n \in 1..send_no : AllRateLimited(n) => SleepsOf(n) = <<2, 4>>
C2_Witness ==
    /\ AllRateLimited(1)
    /\ SleepsOf(1) = <<2, 4>>
    /\ LastEvent.e = "attempt"

\* C3: when the initial send exhausts its retries, process_query returns the
\* rate-limit-exceeded message as its whole result: no exception, no tool
\* dispatch, no further LLM send.
C3_InitialGiveUpReturns ==
    AllRateLimited(1) =>
        /\ pc = "done"
        /\ result = Returned(RateLimitExceeded)
        /\ raised = NoExc
        /\ send_no = 1
        /\ final_text = <<>>
        /\ \A i \in 1..Len(events) : ~IsDispatch(events[i])
        /\ Len(SelectSeq(events, IsAttempt)) = 3
C3_Witness ==
    /\ variant = "http"
    /\ AllRateLimited(1)
    /\ result = Returned(RateLimitExceeded)

\* C4 as stated: when a continuation send exhausts its retries, the
\* rate-limit message is the last thing appended to the output, and no tool
\* call or LLM send follows.
C4_ContinuationGiveUpStops ==
    pc = "done" =>
        \A n \in 2..send_no : AllRateLimited(n) =>
            /\ final_text[Len(final_text)].kind = "rate_limit"
            /\ n = send_no
            /\ IsAttempt(LastEvent) /\ LastEvent.send = n

\* C5: a failing tool dispatch never raises out of process_query, and the
\* output holds the error line of that tool with the failure's message.
FailedDispatches == {i \in 1..Len(events) : IsDispatch(events[i]) /\ ~events[i].ok}
TextLinesOf(resp) ==
    LET tx == SelectSeq(resp, LAMBDA p : p.text # "")
    IN [i \in 1..Len(tx) |-> [kind |-> "text", text |-> tx[i].text]]
FcPositions == {i \in 1..Len(parts) : parts[i].text = "" /\ parts[i].function_call # ""}
\* the query's response holds exactly one function call, its dispatch
\* succeeded and its continuation send was answered
OneCallAnswered ==
    /\ pc = "done"
    /\ Cardinality(FcPositions) = 1
    /\ \E i \in 1..Len(events) : IsDispatch(events[i]) /\ events[i].ok
    /\ send_no = 2
    /\ \E i \in 1..Len(AttemptsOf(2)) : AttemptsOf(2)[i].outcome = "ok"

RECURSIVE JoinedBack(_)
JoinedBack(xs) ==
    IF Len(xs) = 0 THEN ""
    ELSE IF Len(xs) = 1 THEN xs[1]
    ELSE JoinedBack(SubSeq(xs, 1, Len(xs) - 1)) \o "\n" \o xs[Len(xs)]
\* the query was answered and its response holds no function call
TextOnlyAnswered ==
    /\ pc = "done"
    /\ Len(AttemptsOf(1)) > 0
    /\ AttemptsOf(1)[Len(AttemptsOf(1))].outcome = "ok"
    /\ FcPositions = {}

\* C7: a response of text parts only is returned as those texts joined by
\* newlines, in order; with nothing accumulated the result is the
\* placeholder "No response received".
C7_TextOnlyJoined ==
    TextOnlyAnswered =>
        LET tx == SelectSeq(parts, LAMBDA p : p.text # "")
            texts == [i \in 1..Len(tx) |-> tx[i].text]
        IN result = Returned(IF texts = <<>> THEN "No response received"
                             ELSE JoinedBack(texts))
C7_Witness ==
    /\ TextOnlyAnswered
    /\ Len(parts) = 2
    /\ result = Returned("Hello\nWorld")

\* the tools dispatched so far, and the function calls of the response to
\* the query, both in order
DispatchedTools ==
    LET ds == SelectSeq(events, IsDispatch) IN [i \in 1..Len(ds) |-> ds[i].tool]
FcNames ==
    LET fs == SelectSeq(parts, IsFunctionCall) IN [i \in 1..Len(fs) |-> fs[i].function_call]
OkDispatches == {i \in 1..Len(events) : IsDispatch(events[i]) /\ events[i].ok}
\* an upper bound of the steps process_query has still to take
StepsPerPart == 1 + max_retries
Remaining ==
    CASE pc = "start" -> MaxParts * StepsPerPart + max_retries + 2
      [] pc = "initial_send" -> MaxParts * StepsPerPart + 1 + (max_retries - attempt)
      [] pc = "parts" -> (Len(parts) + 1 - part_idx) * StepsPerPart + 1
      [] pc = "cont_send" -> (Len(parts) + 1 - part_idx) * StepsPerPart - attempt
      [] OTHER -> 0
\* the tools dispatched are the first function calls of the response to the
\* query, each once and in part order; every continuation send follows a
\* dispatch that succeeded; no send is attempted more than max_retries times
OneRoundTrip ==
    /\ Len(DispatchedTools) <= Len(FcNames)
    /\ DispatchedTools = SubSeq(FcNames, 1, Len(DispatchedTools))
    /\ send_no <= 1 + Cardinality(OkDispatches)
    /\ \A n \in 1..send_no : Len(AttemptsOf(n)) <= max_retries
    /\ Remaining >= 0

\* C23: process_query terminates (every step lowers the bound Remaining of
\* the steps still to take), each function call of the response to the query
\* is dispatched at most once and followed by at most one continuation send
\* of at most 3 attempts, and a function call of a continuation response is
\* never dispatched.
C23_TerminatesOneRoundTrip == []OneRoundTrip /\ [][Remaining' < Remaining]_vars
\* the continuation response held a function call, and the query ended
\* with the one dispatch of the call the query's response held
C23_Witness ==
    /\ pc = "done"
    /\ \E i \in 1..Len(response) : IsFunctionCall(response[i])
    /\ response # parts
    /\ FcNames = <<"get_apod">>
    /\ DispatchedTools = <<"get_apod">>
    /\ Len(parts) = 2

\* this step is the continuation send of the current call being answered
ContinuationAnswered ==
    /\ pc = "cont_send" /\ pc' = "parts"
    /\ LastEvent'.e = "attempt" /\ LastEvent'.outcome = "ok"
\* the output is only ever appended to
OutputGrows ==
    /\ Len(final_text) <= Len(final_text')
    /\ SubSeq(final_text', 1, Len(final_text)) = final_text
\* when the send is answered the output ends with the trace line of the call
\* the loop is at, and the texts of the response just received, and nothing
\* else, are appended to it
OwnTraceOwnText ==
    ContinuationAnswered =>
        /\ final_text # <<>>
        /\ final_text[Len(final_text)] =
              [kind |-> "trace", tool |-> parts[part_idx].function_call,
               args |-> parts[part_idx].args]
        /\ final_text' = final_text \o TextLinesOf(response')

C25_FailureStopsLoop ==
    \A i \in FailedDispatches :
        /\ i = Len(events)
        /\ final_text # <<>>
        /\ final_text[Len(final_text)] =
              [kind |-> "error", tool |-> events[i].tool, msg |-> events[i].msg]

\* C30 as stated: an error line is in the output only for a tool whose
\* dispatch failed: as many error lines as failed dispatches, each with the
\* tool and the message of one of them.
C30_ErrorLineOnlyForFailedDispatch ==
    /\ CountLines("error") = Cardinality(FailedDispatches)
    /\ \A k \in 1..Len(final_text) :
          final_text[k].kind = "error" =>
              \E i \in FailedDispatches :
                  /\ events[i].tool = final_text[k].tool
                  /\ events[i].msg = final_text[k].msg

-----------------------------------------------------------------------------
(* The dispatcher applied to one response of the server.                   *)

DInit ==
    /\ d_variant \in {"http", "local"}
    /\ d_response \in ToolResponses(d_variant)
    /\ d_outcome = NotRun
DispatchInit == DInit /\ QIdle /\ SIdle /\ BIdle /\ CIdle /\ KIdle /\ XIdle

\* MCPGeminiHTTPClient._call_tool on the response
DispatchHttp ==
    /\ d_variant = "http"
    /\ d_outcome = NotRun
    /\ d_outcome' = Dispatch(d_variant, d_response)
    /\ UNCHANGED <<d_variant, d_response, qvars, svars, bvars, cvars, kvars, xvars>>
\* session.call_tool and _extract_content_from_mcp_result on the response
DispatchLocal ==
    /\ d_variant = "local"
    /\ d_outcome = NotRun
    /\ d_outcome' = Dispatch(d_variant, d_response)
    /\ UNCHANGED <<d_variant, d_response, qvars, svars, bvars, cvars, kvars, xvars>>
DispatchNext == DispatchHttp \/ DispatchLocal
SpecDispatch == DispatchInit /\ [][DispatchNext]_vars

Dispatched == d_outcome # NotRun
ErrorKey == HasKey(d_response, "error")
\* result.content of a response without an error key, when it is a
\* non-empty list
HasContentList ==
    /\ ~ErrorKey
    /\ HasKey(d_response, "result")
    /\ IsDict(GetKey(d_response, "result"))
    /\ HasKey(GetKey(d_response, "result"), "content")
    /\ IsList(GetKey(GetKey(d_response, "result"), "content"))
    /\ GetKey(GetKey(d_response, "result"), "content").v # <<>>
FirstItem == GetKey(GetKey(d_response, "result"), "content").v[1]

\* C8: a response with an error key makes the dispatcher fail; otherwise,
\* for a non-empty result.content, the dispatcher returns the first item's
\* text field if present, else the first item's string representation.
C8_ErrorOrFirstItem ==
    Dispatched =>
        /\ ErrorKey => d_outcome.kind = "raised"
        /\ HasContentList =>
              d_outcome = Returned(IF IsDict(FirstItem) /\ HasKey(FirstItem, "text")
                                   THEN GetKey(FirstItem, "text")
                                   ELSE JStr(PyStr(FirstItem)))

\* C9: for every response without an error key the dispatcher returns a
\* non-empty string; it never raises and never returns an empty or None
\* value.
C9_AlwaysNonEmptyString ==
    (Dispatched /\ ~ErrorKey) =>
        /\ d_outcome.kind = "returned"
        /\ IsString(d_outcome.value)
        /\ d_outcome.value.v # ""

-----------------------------------------------------------------------------
(* Request numbering of a session: the HTTP client towards /call, and the  *)
(* NASA HTTP wrapper towards its subprocess.                               *)

MaxPosted == 4
MaxWritten == 4

\* an id that is not incremented
NextIdStuck(id) == id
\* `self.request_id += 1`
NextId(id) == id + 1
\* a message with "id": a request
Request(method, id) == [method |-> method, id |-> id]
\* a message without "id": a notification
Notification(method) == [method |-> method]

SessionInit == SIdle /\ QIdle /\ DIdle /\ BIdle /\ CIdle /\ KIdle /\ XIdle

\* MCPGeminiHTTPClient._send_initialize: the initialize request; on a
\* response without error, request_id is incremented again and the
\* initialized notification is POSTed without an id
ClientInitialize ==
    /\ Len(posted) + 2 <= MaxPosted
    /\ \E answered \in BOOLEAN :
        LET id == NextId(request_id)
        IN IF answered
           THEN /\ request_id' = NextId(id)
                /\ posted' = posted \o <<Request("initialize", id),
                                         Notification("notifications/initialized")>>
                /\ initialized' = TRUE
           ELSE /\ request_id' = id
                /\ posted' = Append(posted, Request("initialize", id))
                /\ UNCHANGED initialized
    /\ UNCHANGED <<w_started, w_request_id, w_written, qvars, dvars, bvars, cvars, kvars, xvars>>
\* MCPGeminiHTTPClient._list_tools
ClientListTools ==
    /\ initialized
    /\ Len(posted) < MaxPosted
    /\ request_id' = NextId(request_id)
    /\ posted' = Append(posted, Request("tools/list", NextId(request_id)))
    /\ UNCHANGED <<initialized, w_started, w_request_id, w_written, qvars, dvars, bvars, cvars, kvars, xvars>>
\* MCPGeminiHTTPClient._call_tool
ClientCallTool ==
    /\ initialized
    /\ Len(posted) < MaxPosted
    /\ request_id' = NextId(request_id)
    /\ posted' = Append(posted, Request("tools/call", NextId(request_id)))
    /\ UNCHANGED <<initialized, w_started, w_request_id, w_written, qvars, dvars, bvars, cvars, kvars, xvars>>

\* MCPServerWrapper.start_server: _send_initialize writes the initialize
\* request and, when it is answered without error, the notification
WrapperStart ==
    /\ ~w_started
    /\ w_written = <<>>
    /\ w_request_id' = NextId(w_request_id)
    /\ \E answered \in BOOLEAN :
        IF answered
        THEN /\ w_written' = <<Request("initialize", NextId(w_request_id)),
                               Notification("notifications/initialized")>>
             /\ w_started' = TRUE
        ELSE /\ w_written' = <<Request("initialize", NextId(w_request_id))>>
             /\ UNCHANGED w_started
    /\ UNCHANGED <<request_id, posted, initialized, qvars, dvars, bvars, cvars, kvars, xvars>>
\* methods a client asks the wrapper to forward (POST /call, GET /tools)
ForwardedMethods == {"initialize", "notifications/initialized", "tools/list", "tools/call"}
\* MCPServerWrapper.call_tool(method, params)
WrapperCall ==
    /\ w_started
    /\ Len(w_written) < MaxWritten
    /\ w_request_id' = NextId(w_request_id)
    /\ \E method \in ForwardedMethods :
        w_written' = Append(w_written, Request(method, NextId(w_request_id)))
    /\ UNCHANGED <<w_started, request_id, posted, initialized, qvars, dvars, bvars, cvars, kvars, xvars>>

SessionNext ==
    \/ ClientInitialize
    \/ ClientListTools
    \/ ClientCallTool
    \/ WrapperStart
    \/ WrapperCall
SpecSession == SessionInit /\ [][SessionNext]_vars

HasId(m) == "id" \in DOMAIN m
\* the ids of the messages of a log are strictly increasing in send order
IdsIncrease(log) ==
    \A i, j \in 1..Len(log) :
        (i < j /\ HasId(log[i]) /\ HasId(log[j])) => log[i].id < log[j].id

-----------------------------------------------------------------------------
(* The HTTP wrappers and the line protocol to their subprocess: the NASA   *)
(* wrapper (nasa_http_server_sync) and the generic synchronous wrapper     *)
(* (mcp_http_server_sync_remote). One HTTP request is handled at a time    *)
(* (HTTPServer is single-threaded). A message written to the subprocess    *)
(* carries its number n, and a line the subprocess writes carries the      *)
(* number of the message it answers, so that a line can be told from the   *)
(* answer to another message.                                              *)

MaxSends == 3
\* the time a select on the subprocess's output may take (10.0 s), in ticks
TimeoutTicks == 2

\* a JSON-RPC request and a JSON-RPC notification, with params
Call(method, params, id) == [method |-> method, params |-> params, id |-> id]
Notify(method, params) == [method |-> method, params |-> params]

\* the ids a client gives its requests
ClientIds == {1, 2}
\* the params a client may send with a method
ParamsOf(method) ==
    IF method = "tools/call"
    THEN {"{name: get_astronomy_picture_of_the_day}", "{name: get_near_earth_objects}"}
    ELSE {"{}"}
\* bodies of a POST: a full envelope with id, or {method, params}
Bodies ==
    UNION {{Call(method, params, id) : id \in ClientIds, params \in ParamsOf(method)}
           \cup {Notify(method, params) : params \in ParamsOf(method)}
           : method \in ForwardedMethods}
GetPaths == {"/", "/health", "/tools"}
PostPaths == {"/call", "/"}

\* the subprocess writes no line
NoReply == [has |-> "nothing"]
\* a JSON-RPC response of the subprocess to the request m
Reply(m, has) == [id |-> m.id, has |-> has]
\* what the MCP server does with a message it reads: no line for a message
\* without id; a result or an error for initialize; the tools for
\* tools/list; result.content for tools/call; for a notification method
\* that came with an id, an error line or no line
Replies(m) ==
    IF ~("id" \in DOMAIN m) THEN {NoReply}
    ELSE CASE m.method = "initialize" -> {Reply(m, "result"), Reply(m, "error")}
           [] m.method = "tools/list" -> {Reply(m, "result.tools")}
           [] m.method = "tools/call" -> {Reply(m, "result.content")}
           [] OTHER -> {Reply(m, "error"), NoReply}

\* the error dict send_message of the generic wrapper returns from its
\* except block: "id": message.get("id")
ErrorDict(m, text) ==
    IF "id" \in DOMAIN m
    THEN [id |-> m.id, has |-> "error", error |-> text]
    ELSE [id_null |-> TRUE, has |-> "error", error |-> text]
\* the body of _send_error_response(status_code, message)
ErrorBody(text) == [has |-> "error", error |-> text]
\* the body GET / answers with
StatusBody == [has |-> "status"]

\* the record of a completed HTTP exchange
Exchange(req, msg, line_n, waited, status, resp) ==
    [req |-> req, wrote |-> msg, line_n |-> line_n, waited |-> waited,
     status |-> status, resp |-> resp]

BridgeInit ==
    /\ b_variant \in {"nasa", "sync"}
    /\ b_pc = "stopped" /\ b_request_id = 0
    /\ b_caller = "none" /\ b_req = NoRequest /\ b_msg = NoMessage
    /\ b_waited = 0 /\ b_stdin = <<>> /\ b_stdout = <<>>
    /\ b_closed = FALSE /\ b_sends = 0 /\ b_done = NoExchange
    /\ QIdle /\ DIdle /\ SIdle /\ CIdle /\ KIdle /\ XIdle

\* the write half of a send: the message m goes to stdin as line number
\* b_sends + 1, and the send starts to wait for a line
WriteAndWait(m, caller) ==
    /\ b_stdin' = Append(b_stdin, [m |-> m, n |-> b_sends + 1])
    /\ b_msg' = [m |-> m, n |-> b_sends + 1]
    /\ b_sends' = b_sends + 1
    /\ b_caller' = caller
    /\ b_waited' = 0
    /\ b_pc' = "reading"
\* the handler answers and the server waits for the next request
Respond(line_n, status, resp) ==
    /\ b_done' = Exchange(b_req, b_msg, line_n, b_waited, status, resp)
    /\ b_pc' = "serving"
    /\ b_caller' = "none"
    /\ b_req' = NoRequest
    /\ b_msg' = NoMessage
    /\ b_waited' = 0

\* start_server: Popen, then the initialize request is written and its
\* response line awaited (the NASA wrapper numbers it with request_id, the
\* generic wrapper with the literal 1)
StartServer ==
    /\ b_pc = "stopped"
    /\ IF b_variant = "nasa"
       THEN /\ b_request_id' = NextId(b_request_id)
            /\ WriteAndWait(Call("initialize", "{}", NextId(b_request_id)), "start")
       ELSE /\ UNCHANGED b_request_id
            /\ WriteAndWait(Call("initialize", "{}", 1), "start")
    /\ UNCHANGED <<b_variant, b_req, b_stdout, b_closed, b_done>>
    /\ UNCHANGED <<qvars, dvars, svars, cvars, kvars, xvars>>

\* do_GET: "/" answers 200 in both wrappers; "/tools" of the NASA wrapper
\* calls call_tool("tools/list", {}); every other path answers 404
HttpGet ==
    /\ b_pc = "serving"
    /\ \E path \in GetPaths :
        LET req == [verb |-> "GET", path |-> path]
        IN IF path = "/"
           THEN /\ b_done' = Exchange(req, NoMessage, 0, 0, 200, StatusBody)
                /\ UNCHANGED <<b_pc, b_request_id, b_caller, b_req, b_msg,
                               b_waited, b_stdin, b_sends>>
           ELSE IF path = "/tools" /\ b_variant = "nasa"
           THEN /\ b_sends < MaxSends
                /\ b_req' = req
                /\ b_request_id' = NextId(b_request_id)
                /\ WriteAndWait(Call("tools/list", "{}", NextId(b_request_id)), "http")
                /\ UNCHANGED b_done
           ELSE /\ b_done' = Exchange(req, NoMessage, 0, 0, 404, ErrorBody("Not found"))
                /\ UNCHANGED <<b_pc, b_request_id, b_caller, b_req, b_msg,
                               b_waited, b_stdin, b_sends>>
    /\ UNCHANGED <<b_variant, b_stdout, b_closed>>
    /\ UNCHANGED <<qvars, dvars, svars, cvars, kvars, xvars>>

\* MCPServerWrapper.call_tool(method, params) of the NASA wrapper: the
\* message it builds, whatever the client's body carried as id
call_tool(method, params, id) == Call(method, params, id)
\* what do_POST hands to the subprocess for the body of a POST /call: the
\* NASA wrapper call_tool(method, params) under its own next id, the generic
\* wrapper the body as it came
Forwarded(v, body, id) ==
    IF v = "nasa" THEN call_tool(body.method, body.params, id) ELSE body

\* do_POST: "/call" forwards the body and waits for a line; every other
\* path answers 404
HttpPost ==
    /\ b_pc = "serving"
    /\ \E path \in PostPaths, body \in Bodies :
        LET req == [verb |-> "POST", path |-> path, body |-> body]
        IN IF path = "/call"
           THEN /\ b_sends < MaxSends
                /\ b_req' = req
                /\ b_request_id' =
                      IF b_variant = "nasa" THEN NextId(b_request_id) ELSE b_request_id
                /\ WriteAndWait(Forwarded(b_variant, body, NextId(b_request_id)), "http")
                /\ UNCHANGED b_done
           ELSE /\ b_done' = Exchange(req, NoMessage, 0, 0, 404, ErrorBody("Not found"))
                /\ UNCHANGED <<b_pc, b_request_id, b_caller, b_req, b_msg,
                               b_waited, b_stdin, b_sends>>
    /\ UNCHANGED <<b_variant, b_stdout, b_closed>>
    /\ UNCHANGED <<qvars, dvars, svars, cvars, kvars, xvars>>

\* start_server raises: main goes to its finally
StartFails ==
    /\ b_pc' = "failed"
    /\ b_caller' = "none"
    /\ b_msg' = NoMessage
    /\ b_waited' = 0
    /\ UNCHANGED <<b_req, b_done>>

\* readline() returns a line. For start_server it is taken as the answer to
\* initialize: an error raises, otherwise the NASA wrapper writes the
\* initialized notification with expect_response=False and returns without
\* reading. For an HTTP request it becomes the body of a 200 response.
ReadLine ==
    /\ b_pc = "reading"
    /\ b_stdout # <<>>
    /\ b_stdout' = Tail(b_stdout)
    /\ LET line == Head(b_stdout)
       IN IF b_caller = "start"
          THEN IF line.body.has = "error"
               THEN StartFails /\ UNCHANGED <<b_stdin, b_sends>>
               ELSE /\ b_pc' = "serving"
                    /\ b_caller' = "none"
                    /\ b_msg' = NoMessage
                    /\ b_waited' = 0
                    /\ UNCHANGED <<b_req, b_done>>
                    /\ IF b_variant = "nasa"
                       THEN /\ b_stdin' = Append(b_stdin,
                                   [m |-> Notify("notifications/initialized", "{}"),
                                    n |-> b_sends + 1])
                            /\ b_sends' = b_sends + 1
                       ELSE UNCHANGED <<b_stdin, b_sends>>
          ELSE /\ Respond(line.n, 200, line.body)
               /\ UNCHANGED <<b_stdin, b_sends>>
    /\ UNCHANGED <<b_variant, b_request_id, b_closed>>
    /\ UNCHANGED <<qvars, dvars, svars, cvars, kvars, xvars>>

\* readline() returns the empty string: the output stream is closed. The
\* NASA wrapper raises and its except block reads stderr to its end before
\* re-raising; the generic wrapper turns the RuntimeError into an error dict
ReadEof ==
    /\ b_pc = "reading"
    /\ b_stdout = <<>>
    /\ b_closed
    /\ IF b_variant = "nasa"
       THEN /\ b_pc' = "draining"
            /\ UNCHANGED <<b_caller, b_req, b_msg, b_waited, b_done>>
       ELSE IF b_caller = "start"
       THEN StartFails
       ELSE Respond(0, 200, ErrorDict(b_msg.m, "Server closed connection"))
    /\ UNCHANGED <<b_variant, b_request_id, b_stdin, b_stdout, b_closed, b_sends>>
    /\ UNCHANGED <<qvars, dvars, svars, cvars, kvars, xvars>>

\* process.stderr.read() of the NASA wrapper's except block returns (the
\* subprocess has closed stderr) and the exception is re-raised: a 500 for
\* an HTTP request
DrainStderr ==
    /\ b_pc = "draining"
    /\ IF b_caller = "start"
       THEN StartFails
       ELSE Respond(0, 500,
                ErrorBody(IF b_req.verb = "GET"
                          THEN "Error listing tools: No response from MCP server"
                          ELSE "Error processing request: No response from MCP server"))
    /\ UNCHANGED <<b_variant, b_request_id, b_stdin, b_stdout, b_closed, b_sends>>
    /\ UNCHANGED <<qvars, dvars, svars, cvars, kvars, xvars>>

\* whether a wrapper bounds its wait for a line: select(..., 10.0) in the
\* generic wrapper, a bare readline() in the NASA wrapper
HasTimeout(v) == v = "sync"

\* select returns no ready stream: RuntimeError("MCP server response
\* timeout"), turned into an error dict
SendTimeout ==
    /\ b_pc = "reading"
    /\ HasTimeout(b_variant)
    /\ b_stdout = <<>>
    /\ ~b_closed
    /\ b_waited = TimeoutTicks
    /\ IF b_caller = "start"
       THEN StartFails
       ELSE Respond(0, 200, ErrorDict(b_msg.m, "MCP server response timeout"))
    /\ UNCHANGED <<b_variant, b_request_id, b_stdin, b_stdout, b_closed, b_sends>>
    /\ UNCHANGED <<qvars, dvars, svars, cvars, kvars, xvars>>

\* time passes while a send waits and no line is there; without a timeout
\* the wait is followed one tick beyond TimeoutTicks and no further
Tick ==
    /\ b_pc = "reading"
    /\ b_stdout = <<>>
    /\ ~b_closed
    /\ b_waited < (IF HasTimeout(b_variant) THEN TimeoutTicks ELSE TimeoutTicks + 1)
    /\ b_waited' = b_waited + 1
    /\ UNCHANGED <<b_variant, b_pc, b_request_id, b_caller, b_req, b_msg,
                   b_stdin, b_stdout, b_closed, b_sends, b_done>>
    /\ UNCHANGED <<qvars, dvars, svars, cvars, kvars, xvars>>

\* the subprocess reads its next line and answers it, at its own pace
SubprocessStep ==
    /\ b_stdin # <<>>
    /\ b_stdin' = Tail(b_stdin)
    /\ \E r \in Replies(Head(b_stdin).m) :
        IF r = NoReply \/ b_closed
        THEN UNCHANGED b_stdout
        ELSE b_stdout' = Append(b_stdout, [n |-> Head(b_stdin).n, body |-> r])
    /\ UNCHANGED <<b_variant, b_pc, b_request_id, b_caller, b_req, b_msg,
                   b_waited, b_closed, b_sends, b_done>>
    /\ UNCHANGED <<qvars, dvars, svars, cvars, kvars, xvars>>

\* the subprocess closes its output stream
SubprocessClose ==
    /\ b_pc \in {"reading", "serving"}
    /\ ~b_closed
    /\ b_closed' = TRUE
    /\ UNCHANGED <<b_variant, b_pc, b_request_id, b_caller, b_req, b_msg,
                   b_waited, b_stdin, b_stdout, b_sends, b_done>>
    /\ UNCHANGED <<qvars, dvars, svars, cvars, kvars, xvars>>

BridgeNext ==
    \/ StartServer
    \/ HttpGet
    \/ HttpPost
    \/ ReadLine
    \/ ReadEof
    \/ DrainStderr
    \/ SendTimeout
    \/ Tick
    \/ SubprocessStep
    \/ SubprocessClose
SpecBridge == BridgeInit /\ [][BridgeNext]_vars

\* the message a caller handed to the send in progress: the body of a POST,
\* otherwise the message the wrapper built itself
HandedMessage == IF b_req.verb = "POST" THEN b_req.body ELSE b_msg.m
\* a send is waiting for a response line (or for stderr after an empty read)
Waiting == b_pc \in {"reading", "draining"}

\* C11: a notification (a message without id) is never held waiting for a
\* response line: neither one the wrapper sends itself on the stdio side,
\* nor one a client POSTs to /call.
C11_NotificationNeverWaits == Waiting => HasId(HandedMessage)

\* an HTTP exchange has completed
Completed == b_done # NoExchange
\* the completed exchange returned a line read from the subprocess
ReturnedLine == Completed /\ b_done.line_n # 0

\* C12: the response line a send returns is the subprocess's response to
\* the message that same send wrote, never the line of an earlier message,
\* whatever sends came before (timed out or unanswered ones included).
C12_ResponsesCorrelated == ReturnedLine => b_done.line_n = b_done.wrote.n

\* the exchange x is a POST to /call
IsCall(x) == x.req.verb = "POST" /\ x.req.path = "/call"

\* C13: the response returned for a request with id i POSTed to /call
\* carries the same id i.
C13_ResponseEchoesId ==
    (Completed /\ IsCall(b_done) /\ HasId(b_done.req.body)) =>
        /\ HasId(b_done.resp)
        /\ b_done.resp.id = b_done.req.body.id

\* the completed exchange wrote a message and got no line for it
GotNoLine == Completed /\ b_done.wrote # NoMessage /\ b_done.line_n = 0

\* C18: a send that gets no line fails with a fault, a timeout fault when
\* the subprocess is silent and a connection-closed fault on an empty read;
\* it neither waits beyond the timeout nor returns a normal response.
C18_TimeoutAndClosedFaults ==
    /\ Waiting => b_waited <= TimeoutTicks
    /\ GotNoLine =>
          /\ b_done.resp.has = "error"
          /\ b_done.resp.error \in
                {"MCP server response timeout", "Server closed connection",
                 "Error listing tools: No response from MCP server",
                 "Error processing request: No response from MCP server"}

\* C19: a POST /call has its method and params forwarded to the subprocess,
\* and what is returned as the subprocess's response (status 200) is the
\* response to that very message; for tools/call it holds result.content.
C19_CallForwardedAndAnswered ==
    (Completed /\ IsCall(b_done)) =>
        /\ b_done.wrote.m.method = b_done.req.body.method
        /\ b_done.wrote.m.params = b_done.req.body.params
        /\ ReturnedLine =>
              /\ b_done.status = 200
              /\ b_done.line_n = b_done.wrote.n
              /\ b_done.req.body.method = "tools/call" =>
                    b_done.resp.has = "result.content"

\* the exchange x is a liveness probe: GET / or GET /health
IsProbe(x) == x.req.verb = "GET" /\ x.req.path \in {"/", "/health"}

\* C20: while the NASA wrapper runs, GET / and GET /health answer 200.
C20_ProbesAnswer200 ==
    (Completed /\ b_variant = "nasa" /\ IsProbe(b_done)) => b_done.status = 200

-----------------------------------------------------------------------------
(* The lifecycle of a main: the try block calls connect (start_server for  *)
(* the NASA wrapper) and then chats (serves); the finally block calls      *)
(* cleanup (stop_server). The stdio client's session.initialize() is the   *)
(* SDK call that sends the initialize request and then the notification.   *)

MaxSent == 5

LifecycleInit ==
    /\ c_variant \in {"http", "local", "wrapper"}
    /\ c_pc = "main" /\ c_called = FALSE
    /\ c_transport = "none" /\ c_established = FALSE /\ c_sent = <<>>
    /\ c_init_ok = FALSE /\ c_cleanups = 0 /\ c_raised = FALSE
    /\ QIdle /\ DIdle /\ SIdle /\ BIdle /\ KIdle /\ XIdle

\* try/finally without the finally: an exception leaves main at once
AfterTryNoFinally(raising) == IF raising THEN "exited" ELSE "cleanup"
\* try: ... finally: cleanup() -- where main goes when the try block is left,
\* by its end or by an exception
AfterTry(raising) == "cleanup"

\* an exception leaves the try block of main
Raise ==
    /\ c_raised' = TRUE
    /\ c_pc' = AfterTry(TRUE)

\* main without a server argument: usage message and sys.exit(1), before
\* the client exists
UsageExit ==
    /\ c_pc = "main"
    /\ c_variant # "wrapper"
    /\ c_pc' = "exited"
    /\ UNCHANGED <<c_variant, c_called, c_transport, c_established, c_sent,
                   c_init_ok, c_cleanups, c_raised>>
    /\ UNCHANGED <<qvars, dvars, svars, bvars, kvars, xvars>>

\* main enters its try block and calls connect; the HTTP client creates its
\* httpx.AsyncClient before anything is sent
CallConnect ==
    /\ c_pc = "main"
    /\ c_called' = TRUE
    /\ c_pc' = "establish"
    /\ c_transport' = IF c_variant = "http" THEN "open" ELSE c_transport
    /\ UNCHANGED <<c_variant, c_established, c_sent, c_init_ok, c_cleanups, c_raised>>
    /\ UNCHANGED <<qvars, dvars, svars, bvars, kvars, xvars>>

\* the transport is established: GET / answers 200 (HTTP client), the
\* server process is spawned and the session entered (stdio client), Popen
\* returns (wrapper); or it is not, and connect raises
Establish ==
    /\ c_pc = "establish"
    /\ \E ok \in BOOLEAN :
        IF ok
        THEN /\ c_transport' = "open"
             /\ c_established' = TRUE
             /\ c_pc' = "initialize"
             /\ UNCHANGED c_raised
        ELSE /\ Raise
             /\ UNCHANGED <<c_transport, c_established>>
    /\ UNCHANGED <<c_variant, c_called, c_sent, c_init_ok, c_cleanups>>
    /\ UNCHANGED <<qvars, dvars, svars, bvars, kvars, xvars>>

\* the answers a request may get: a result, a JSON-RPC error, or a fault of
\* the transport
Answers == {"result", "error", "fault"}
\* the error check that is never taken
InitializeNeverRaises(answer) == answer = "fault"
\* `if "error" in result: raise`, and a fault of the transport raises by
\* itself
InitializeRaises(answer) == answer # "result"

\* _send_initialize, first half: the initialize request and its answer
SendInitialize ==
    /\ c_pc = "initialize"
    /\ c_sent' = Append(c_sent, [method |-> "initialize", kind |-> "request"])
    /\ \E answer \in Answers :
        /\ c_init_ok' = (answer = "result")
        /\ IF InitializeRaises(answer)
           THEN Raise
           ELSE c_pc' = "notify" /\ UNCHANGED c_raised
    /\ UNCHANGED <<c_variant, c_called, c_transport, c_established, c_cleanups>>
    /\ UNCHANGED <<qvars, dvars, svars, bvars, kvars, xvars>>

\* _send_initialize, second half: the initialized notification; connect
\* goes on to tools/list, start_server returns and the wrapper serves
SendInitialized ==
    /\ c_pc = "notify"
    /\ c_sent' = Append(c_sent, [method |-> "notifications/initialized",
                                 kind |-> "notification"])
    /\ \E ok \in BOOLEAN :
        IF ok
        THEN /\ c_pc' = IF c_variant = "wrapper" THEN "chat" ELSE "list_tools"
             /\ UNCHANGED c_raised
        ELSE Raise
    /\ UNCHANGED <<c_variant, c_called, c_transport, c_established, c_init_ok,
                   c_cleanups>>
    /\ UNCHANGED <<qvars, dvars, svars, bvars, kvars, xvars>>

\* _list_tools / session.list_tools() at the end of connect
ListTools ==
    /\ c_pc = "list_tools"
    /\ c_sent' = Append(c_sent, [method |-> "tools/list", kind |-> "request"])
    /\ \E answer \in Answers :
        IF answer = "result"
        THEN c_pc' = "chat" /\ UNCHANGED c_raised
        ELSE Raise
    /\ UNCHANGED <<c_variant, c_called, c_transport, c_established, c_init_ok,
                   c_cleanups>>
    /\ UNCHANGED <<qvars, dvars, svars, bvars, kvars, xvars>>

\* the methods sent after connect: a query lists the tools and may call
\* one; the wrapper forwards whatever method a client names
ChatMethods(v) == IF v = "wrapper" THEN ForwardedMethods ELSE {"tools/list", "tools/call"}

\* chat_loop handling a query (serve_forever handling a request): a request
\* is sent on the session; its failure is caught inside the loop
ChatSend ==
    /\ c_pc = "chat"
    /\ Len(c_sent) < MaxSent
    /\ \E method \in ChatMethods(c_variant) :
        c_sent' = Append(c_sent, [method |-> method, kind |-> "request"])
    /\ UNCHANGED <<c_variant, c_pc, c_called, c_transport, c_established,
                   c_init_ok, c_cleanups, c_raised>>
    /\ UNCHANGED <<qvars, dvars, svars, bvars, kvars, xvars>>

\* the loop ends: 'quit' breaks out of chat_loop, or KeyboardInterrupt
\* leaves it (the only way out of serve_forever)
ChatEnds ==
    /\ c_pc = "chat"
    /\ \E interrupted \in BOOLEAN :
        /\ (c_variant = "wrapper") => interrupted
        /\ c_raised' = interrupted
        /\ c_pc' = AfterTry(interrupted)
    /\ UNCHANGED <<c_variant, c_called, c_transport, c_established, c_sent,
                   c_init_ok, c_cleanups>>
    /\ UNCHANGED <<qvars, dvars, svars, bvars, kvars, xvars>>

\* cleanup: http_client.aclose() if the client exists, exit_stack.aclose(),
\* stop_server() if the process exists; then main is left
Cleanup ==
    /\ c_pc = "cleanup"
    /\ c_cleanups' = c_cleanups + 1
    /\ c_transport' = IF c_transport = "open" THEN "closed" ELSE c_transport
    /\ c_pc' = "exited"
    /\ UNCHANGED <<c_variant, c_called, c_established, c_sent, c_init_ok, c_raised>>
    /\ UNCHANGED <<qvars, dvars, svars, bvars, kvars, xvars>>

LifecycleNext ==
    \/ UsageExit
    \/ CallConnect
    \/ Establish
    \/ SendInitialize
    \/ SendInitialized
    \/ ListTools
    \/ ChatSend
    \/ ChatEnds
    \/ Cleanup
SpecLifecycle == LifecycleInit /\ [][LifecycleNext]_vars

\* the message at position i of the session is the request `method`
SentRequest(i, method) == c_sent[i] = [method |-> method, kind |-> "request"]

C15_CleanupExactlyOnce ==
    c_variant \in {"http", "local"} =>
        /\ c_cleanups <= 1
        /\ (c_pc = "exited" /\ c_called) =>
              /\ c_cleanups = 1
              /\ c_transport # "open"
\* a handshake failure after the transport was established
C15_Witness ==
    /\ c_variant = "local"
    /\ c_pc = "exited"
    /\ c_called /\ c_raised
    /\ c_established /\ ~c_init_ok
    /\ c_transport = "closed"
    /\ c_cleanups = 1

-----------------------------------------------------------------------------
(* The schema adapter _clean_schema_for_gemini (the same code in the three *)
(* Gemini clients), applied to a tool's inputSchema.                       *)

\* unsupported_fields
Denylist == {"title", "examples", "default", "$schema", "$id",
             "additionalProperties", "patternProperties", "dependencies",
             "allOf", "anyOf", "oneOf", "not"}

\* positions of a key sequence from the first denylisted key on, that key
\* left out: only the first denylisted key is skipped
KeptDropFirst(ks) ==
    SelectSeq([i \in 1..Len(ks) |-> i],
              LAMBDA i : ks[i] \notin Denylist
                         \/ \E j \in 1..(i - 1) : ks[j] \in Denylist)
\* `for key, value in schema.items(): if key in unsupported_fields:
\* continue`: the positions of the keys that are kept, in order
Kept(ks) == SelectSeq([i \in 1..Len(ks) |-> i], LAMBDA i : ks[i] \notin Denylist)

RECURSIVE clean(_)
RECURSIVE CleanValue(_, _)
\* the value stored under a kept key: under 'properties' a dict of cleaned
\* property schemas with the property names kept; a dict value (under
\* 'items' or any other key) cleaned; everything else, lists included, as
\* it is
CleanValue(key, value) ==
    IF key = "properties" /\ IsDict(value)
    THEN JDict(value.k, [j \in 1..Len(value.k) |-> clean(value.v[j])])
    ELSE IF IsDict(value) THEN clean(value)
    ELSE value
\* _clean_schema_for_gemini(schema)
clean(schema) ==
    IF ~IsDict(schema) THEN schema
    ELSE LET idx == Kept(schema.k)
         IN JDict([j \in 1..Len(idx) |-> schema.k[idx[j]]],
                  [j \in 1..Len(idx) |-> CleanValue(schema.k[idx[j]], schema.v[idx[j]])])

MaxKeys == 2
MaxDepth == 2

\* the keys of an innermost schema, in the order they are written
LeafKeys == <<"type", "title", "description", "default">>
\* innermost schemas: up to MaxKeys of the leaf keys, each with a string
LeafSchemas ==
    {LET ks == SelectSeq(LeafKeys, LAMBDA k : k \in chosen)
     IN JDict(ks, [j \in 1..Len(ks) |-> JStr("string")])
     : chosen \in {c \in SUBSET {LeafKeys[i] : i \in 1..Len(LeafKeys)} :
                      Cardinality(c) <= MaxKeys}}
\* inputs that are no dict
NonObjects == {JNull, JStr("string"),
               JList(<<JDict(<<"title">>, <<JStr("string")>>)>>)}
\* the ways a schema holds another: as the schema of a property, of a
\* property that is itself named title, as items, as an element of a list
\* under items, as another object value, under a denylisted key
Holders == {"property", "property_title", "items", "items_list", "definitions", "not"}
Hold(h, x) ==
    CASE h = "property" ->
            JDict(<<"type", "properties">>, <<JStr("object"), JDict(<<"a">>, <<x>>)>>)
      [] h = "property_title" ->
            JDict(<<"type", "properties">>, <<JStr("object"), JDict(<<"title">>, <<x>>)>>)
      [] h = "items" -> JDict(<<"type", "items">>, <<JStr("array"), x>>)
      [] h = "items_list" -> JDict(<<"type", "items">>, <<JStr("array"), JList(<<x>>)>>)
      [] h = "definitions" -> JDict(<<"definitions">>, <<x>>)
      [] OTHER -> JDict(<<"not", "type">>, <<x, JStr("object")>>)
RECURSIVE Nested(_)
\* schemas nested up to depth d
Nested(d) ==
    IF d = 0 THEN LeafSchemas \cup NonObjects
    ELSE Nested(d - 1) \cup {Hold(h, x) : h \in Holders, x \in Nested(d - 1)}
Schemas == Nested(MaxDepth)

CleanInit ==
    /\ k_schema \in Schemas
    /\ k_once = NotRun /\ k_twice = NotRun
    /\ QIdle /\ DIdle /\ SIdle /\ BIdle /\ CIdle /\ XIdle

\* parameters = self._clean_schema_for_gemini(tool.inputSchema)
CleanOnce ==
    /\ k_once = NotRun
    /\ k_once' = Returned(clean(k_schema))
    /\ UNCHANGED <<k_schema, k_twice>>
    /\ UNCHANGED <<qvars, dvars, svars, bvars, cvars, xvars>>
\* the adapter applied to its own result
CleanAgain ==
    /\ k_once # NotRun
    /\ k_twice = NotRun
    /\ k_twice' = Returned(clean(k_once.value))
    /\ UNCHANGED <<k_schema, k_once>>
    /\ UNCHANGED <<qvars, dvars, svars, bvars, cvars, xvars>>

CleanNext ==
    \/ CleanOnce
    \/ CleanAgain
SpecClean == CleanInit /\ [][CleanNext]_vars

RECURSIVE HasDenylistedKey(_)
\* a key of the denylist occurs in j at some depth, through object values
\* and list elements
HasDenylistedKey(j) ==
    \/ /\ IsDict(j)
       /\ \E i \in 1..Len(j.k) : j.k[i] \in Denylist \/ HasDenylistedKey(j.v[i])
    \/ /\ IsList(j)
       /\ \E i \in 1..Len(j.v) : HasDenylistedKey(j.v[i])

\* C16: no key of the denylist occurs at any nesting depth of clean(S).
C16_NoDenylistedKeyAnywhere ==
    k_once # NotRun => ~HasDenylistedKey(k_once.value)

\* C17: clean(clean(S)) = clean(S), and an input that is no object is
\* returned unchanged.
C17_Idempotent ==
    /\ k_twice # NotRun => k_twice.value = k_once.value
    /\ (k_once # NotRun /\ ~IsDict(k_schema)) => k_once.value = k_schema
\* a nested schema that the adapter changed, cleaned twice
C17_Witness ==
    /\ k_twice # NotRun
    /\ IsDict(k_schema)
    /\ k_once.value # k_schema
    /\ HasKey(k_once.value, "properties")
    /\ k_twice.value = k_once.value

-----------------------------------------------------------------------------
(* The date range the NASA clients synthesize for get_near_earth_objects:  *)
(* fallback_parse_query of the Streamlit app, set_this_week of the GUI.    *)
(* A query is held by what the parser's patterns find in it.               *)

IsLeap(y) == (y % 4 = 0 /\ y % 100 # 0) \/ y % 400 = 0
DaysInMonth(y, m) ==
    IF m = 2 THEN (IF IsLeap(y) THEN 29 ELSE 28)
    ELSE IF m \in {4, 6, 9, 11} THEN 30 ELSE 31
\* date(year, month, day) does not raise ValueError
IsValidDate(y, m, d) == m \in 1..12 /\ d >= 1 /\ d <= DaysInMonth(y, m)
RECURSIVE DaysBeforeMonth(_, _)
DaysBeforeMonth(y, m) ==
    IF m = 1 THEN 0 ELSE DaysBeforeMonth(y, m - 1) + DaysInMonth(y, m - 1)
\* date.toordinal()
Ordinal(dt) ==
    LET p == dt.y - 1
    IN 365 * p + (p \div 4) - (p \div 100) + (p \div 400)
       + DaysBeforeMonth(dt.y, dt.m) + dt.d
RECURSIVE AddDays(_, _)
\* dt + timedelta(days=n)
AddDays(dt, n) ==
    IF n = 0 THEN dt
    ELSE AddDays(IF dt.d < DaysInMonth(dt.y, dt.m) THEN Date(dt.y, dt.m, dt.d + 1)
                 ELSE IF dt.m < 12 THEN Date(dt.y, dt.m + 1, 1)
                 ELSE Date(dt.y + 1, 1, 1),
                 n - 1)

\* {"start_date": ..., "end_date": ...}; the strings '%Y-%m-%d' are held
\* by the dates they write
Range(start, end) == [start |-> start, end |-> end]
\* f"{year}-{month_num:02d}-01" to f"{year}-{month_num:02d}-07"
FirstWeek(y, m) == Range(Date(y, m, 1), Date(y, m, 7))

\* the NEO branch of fallback_parse_query, by the first pattern that matches
fallback_parse_query(today, q) ==
    CASE q.kind = "specific" ->
            IF IsValidDate(q.year, q.month, q.day)
            THEN Range(Date(q.year, q.month, q.day),
                       AddDays(Date(q.year, q.month, q.day), 6))
            ELSE FirstWeek(q.year, q.month)
      [] q.kind = "month_year" -> FirstWeek(q.year, q.month)
      [] q.kind = "month_near_year" -> FirstWeek(q.year, q.month)
      [] q.kind = "month" ->
            FirstWeek(IF q.month >= today.m THEN today.y ELSE today.y + 1, q.month)
      [] q.kind = "next_month" ->
            IF today.m + 1 > 12 THEN FirstWeek(today.y + 1, 1)
            ELSE FirstWeek(today.y, today.m + 1)
      [] q.kind = "next_year" -> FirstWeek(today.y + 1, today.m)
      [] q.kind = "next_week" -> Range(AddDays(today, 7), AddDays(today, 14))
      [] q.kind = "year" /\ q.year >= today.y -> FirstWeek(q.year, today.m)
      [] OTHER -> Range(today, AddDays(today, 7))
\* set_this_week of the GUI
set_this_week(today) == Range(today, AddDays(today, 7))

Todays == {Date(2028, 2, 24), Date(2029, 4, 13), Date(2029, 12, 28), Date(2030, 1, 31)}
QueryMonths == {2, 4, 12}
QueryDays == {13, 29, 31}
QueryYears == {2028, 2029, 2032}
\* what a query about asteroids may hold
Queries ==
    {[kind |-> "specific", month |-> m, day |-> d, year |-> y] :
        m \in QueryMonths, d \in QueryDays, y \in QueryYears}
    \cup {[kind |-> k, month |-> m, year |-> y] :
        k \in {"month_year", "month_near_year"}, m \in QueryMonths, y \in QueryYears}
    \cup {[kind |-> "month", month |-> m] : m \in QueryMonths}
    \cup {[kind |-> k] : k \in {"default", "next_month", "next_year", "next_week"}}
    \cup {[kind |-> "year", year |-> y] : y \in QueryYears}
\* the 'This Week' button of the GUI
ThisWeek == [kind |-> "this_week"]

RangeInit ==
    /\ n_today \in Todays
    /\ n_query \in Queries \cup {ThisWeek}
    /\ n_range = NotRun
    /\ OldIdle /\ HIdle /\ TIdle /\ GIdle /\ EIdle

\* the Streamlit app parses a query about near earth objects
ParseQuery ==
    /\ n_range = NotRun
    /\ n_query \in Queries
    /\ n_range' = Returned(fallback_parse_query(n_today, n_query))
    /\ UNCHANGED <<n_today, n_query>>
    /\ UNCHANGED OthersN
\* the GUI's 'This Week' button fills the two date fields
SetThisWeek ==
    /\ n_range = NotRun
    /\ n_query = ThisWeek
    /\ n_range' = Returned(set_this_week(n_today))
    /\ UNCHANGED <<n_today, n_query>>
    /\ UNCHANGED OthersN

RangeNext ==
    \/ ParseQuery
    \/ SetThisWeek
SpecRange == RangeInit /\ [][RangeNext]_vars

\* the number of days a range covers, both ends included: 2029-04-13 to
\* 2029-04-19 covers 7 days
SpanDays(r) == Ordinal(r.end) - Ordinal(r.start) + 1

\* C21: the range synthesized for get_near_earth_objects never covers more
\* than 7 days, in any branch of the parser and for the 'This Week' button.
C21_RangeWithinSevenDays ==
    n_range # NotRun => SpanDays(n_range.value) <= 7

-----------------------------------------------------------------------------
(* chat_loop of the Gemini clients: read a line, leave on quit, otherwise  *)
(* run process_query and print what it returns or the exception it raises. *)

MaxLines == 3

\* lines a user may enter
Lines == {"quit", " QUIT ", "quit please", "show me the astronomy picture"}
\* query.strip().lower() of the lines above
StripLower(line) == IF line = " QUIT " THEN "quit" ELSE line
\* `if query.lower() == 'quit': break`
IsQuit(line) == StripLower(line) = "quit"

ChatInit ==
    /\ h_pc = "reading" /\ h_lines = <<>> /\ h_printed = <<>>
    /\ OldIdle /\ NIdle /\ TIdle /\ GIdle /\ EIdle

\* an exception of process_query that leaves the loop
AfterExceptionLeaves == "ended"
\* `except Exception as e: print(...)` inside `while True`: the loop reads
\* the next line
AfterException == "reading"

\* input() returns a line
ChatRead ==
    /\ h_pc = "reading"
    /\ Len(h_lines) < MaxLines
    /\ \E line \in Lines :
        /\ h_lines' = Append(h_lines, line)
        /\ h_pc' = IF IsQuit(line) THEN "ended" ELSE "processing"
    /\ UNCHANGED h_printed
    /\ UNCHANGED OthersH
\* input() raises EOFError: standard input is at its end
ChatReadEof ==
    /\ h_pc = "reading"
    /\ Len(h_lines) < MaxLines
    /\ h_lines' = Append(h_lines, "EOF")
    /\ h_printed' = Append(h_printed, [kind |-> "error", line |-> Len(h_lines) + 1])
    /\ h_pc' = AfterException
    /\ UNCHANGED OthersH
\* process_query returns its text, which is printed
QueryReturns ==
    /\ h_pc = "processing"
    /\ h_printed' = Append(h_printed, [kind |-> "response", line |-> Len(h_lines)])
    /\ h_pc' = "reading"
    /\ UNCHANGED h_lines
    /\ UNCHANGED OthersH
\* process_query raises (list_tools fails, the initial send fails with an
\* error that is no rate limit): "Error: ..." is printed
QueryRaises ==
    /\ h_pc = "processing"
    /\ h_printed' = Append(h_printed, [kind |-> "error", line |-> Len(h_lines)])
    /\ h_pc' = AfterException
    /\ UNCHANGED h_lines
    /\ UNCHANGED OthersH

ChatNext ==
    \/ ChatRead
    \/ ChatReadEof
    \/ QueryReturns
    \/ QueryRaises
SpecChat == ChatInit /\ [][ChatNext]_vars

\* C22: the chat loop ends only on the line quit; a query whose
\* process_query failed has its error printed and the loop reads on: every
\* line before the last has its own printed item, and the loop has ended
\* only if the last line was quit.
C22_LoopEndsOnlyOnQuit ==
    /\ h_pc = "ended" =>
          /\ h_lines # <<>>
          /\ IsQuit(h_lines[Len(h_lines)])
          /\ Len(h_printed) = Len(h_lines) - 1
    /\ h_pc = "reading" => Len(h_printed) = Len(h_lines)
    /\ \A i \in 1..Len(h_printed) : h_printed[i].line = i
\* a query failed, the next one was answered, then quit ended the loop
C22_Witness ==
    /\ h_pc = "ended"
    /\ Len(h_lines) = 3
    /\ h_printed[1].kind = "error"
    /\ h_lines[1] # "EOF"
    /\ h_printed[2].kind = "response"

\* C29 as stated: once a wrapper has initialised its subprocess at
\* start-up, no message it writes to the subprocess for an HTTP request is
\* an initialize request.
C29_InitializeOnlyAtStartup ==
    (b_caller = "http" /\ b_msg # NoMessage) => b_msg.m.method # "initialize"

-----------------------------------------------------------------------------
(* stop_server of the wrappers: terminate the subprocess and wait for it.  *)

\* `self.process.wait(timeout=3)`, `asyncio.wait_for(self.process.wait(), timeout=3)`
GracePeriod == 3
\* bound on the seconds the model lets pass while stop_server waits
MaxWait == 5

\* the wrappers whose wait carries a timeout
HasGrace(v) == v \in {"sync", "async"}

StopInit ==
    /\ t_variant \in {"nasa", "sync", "async", "sse"}
    /\ t_pc = "serving"
    /\ t_proc \in {"none", "running", "exited"}
    /\ t_ignores \in BOOLEAN
    /\ t_waited = 0
    /\ t_signals = <<>>
    /\ OldIdle /\ NIdle /\ HIdle /\ GIdle /\ EIdle

\* `if self.process: self.process.terminate()`, then the wait begins
StopServer ==
    /\ t_pc = "serving"
    /\ IF t_proc = "none"
       THEN t_pc' = "returned" /\ UNCHANGED t_signals
       ELSE t_pc' = "wait" /\ t_signals' = Append(t_signals, "TERM")
    /\ UNCHANGED <<t_variant, t_proc, t_ignores, t_waited>>
    /\ UNCHANGED OthersT
\* the subprocess exits: on the terminate request unless it ignores it, on
\* the kill always
SubprocessExits ==
    /\ t_proc = "running"
    /\ \/ "KILL" \in {t_signals[i] : i \in 1..Len(t_signals)}
       \/ /\ "TERM" \in {t_signals[i] : i \in 1..Len(t_signals)}
          /\ ~t_ignores
    /\ t_proc' = "exited"
    /\ UNCHANGED <<t_variant, t_pc, t_ignores, t_waited, t_signals>>
    /\ UNCHANGED OthersT
\* `self.process.wait(...)` returns: the subprocess has exited
WaitReturns ==
    /\ t_pc \in {"wait", "wait_killed"}
    /\ t_proc = "exited"
    /\ t_pc' = "returned"
    /\ UNCHANGED <<t_variant, t_proc, t_ignores, t_waited, t_signals>>
    /\ UNCHANGED OthersT
\* a second passes while stop_server waits after the terminate request
WaitTick ==
    /\ t_pc = "wait"
    /\ t_proc = "running"
    /\ t_waited < MaxWait
    /\ ~(HasGrace(t_variant) /\ t_waited >= GracePeriod)
    /\ t_waited' = t_waited + 1
    /\ UNCHANGED <<t_variant, t_pc, t_proc, t_ignores, t_signals>>
    /\ UNCHANGED OthersT
\* `except subprocess.TimeoutExpired: self.process.kill(); self.process.wait()`
WaitTimeout ==
    /\ HasGrace(t_variant)
    /\ t_pc = "wait"
    /\ t_proc = "running"
    /\ t_waited = GracePeriod
    /\ t_signals' = Append(t_signals, "KILL")
    /\ t_pc' = "wait_killed"
    /\ UNCHANGED <<t_variant, t_proc, t_ignores, t_waited>>
    /\ UNCHANGED OthersT

StopNext ==
    \/ StopServer
    \/ SubprocessExits
    \/ WaitReturns
    \/ WaitTick
    \/ WaitTimeout
SpecStop == StopInit /\ [][StopNext]_vars

\* C26 as stated: stop_server waits for the subprocess no longer than the
\* grace period (by then it has force-killed it), and when it has returned
\* the subprocess is not running.
C26_TeardownCompletes ==
    /\ t_waited <= GracePeriod
    /\ t_pc = "returned" => t_proc # "running"

-----------------------------------------------------------------------------
(* NASAMCPClient.call_tool run by several worker threads of the GUI: each  *)
(* user action starts a thread with its own event loop; the threads share  *)
(* the client and its request_id, and nothing serialises them.             *)

\* bound on the user actions of a run
MaxClicks == 4

GuiInit ==
    /\ g_request_id = 0
    /\ g_pc = [t \in Threads |-> "idle"]
    /\ g_tmp = [t \in Threads |-> 0]
    /\ g_sent = <<>>
    /\ g_clicks = 0
    /\ OldIdle /\ NIdle /\ HIdle /\ TIdle /\ EIdle

\* `threading.Thread(target=fetch, daemon=True).start()`; the thread reaches
\* `self.client.call_tool(...)`
Click(t) ==
    /\ g_pc[t] = "idle"
    /\ g_clicks < MaxClicks
    /\ g_clicks' = g_clicks + 1
    /\ g_pc' = [g_pc EXCEPT ![t] = "called"]
    /\ UNCHANGED <<g_request_id, g_tmp, g_sent>>
    /\ UNCHANGED OthersG
\* `self.request_id += 1`: the attribute is loaded ...
LoadRequestId(t) ==
    /\ g_pc[t] = "called"
    /\ g_tmp' = [g_tmp EXCEPT ![t] = g_request_id]
    /\ g_pc' = [g_pc EXCEPT ![t] = "loaded"]
    /\ UNCHANGED <<g_request_id, g_sent, g_clicks>>
    /\ UNCHANGED OthersG
\* ... and the sum is stored
StoreRequestId(t) ==
    /\ g_pc[t] = "loaded"
    /\ g_request_id' = g_tmp[t] + 1
    /\ g_pc' = [g_pc EXCEPT ![t] = "stored"]
    /\ UNCHANGED <<g_tmp, g_sent, g_clicks>>
    /\ UNCHANGED OthersG
\* `message = {..., "id": self.request_id}`: the attribute is read again
BuildMessage(t) ==
    /\ g_pc[t] = "stored"
    /\ g_sent' = Append(g_sent, [method |-> "tools/call", thread |-> t,
                                 id |-> g_request_id])
    /\ g_pc' = [g_pc EXCEPT ![t] = "posted"]
    /\ UNCHANGED <<g_request_id, g_tmp, g_clicks>>
    /\ UNCHANGED OthersG
\* the POST is answered and the thread ends
ThreadEnds(t) ==
    /\ g_pc[t] = "posted"
    /\ g_pc' = [g_pc EXCEPT ![t] = "idle"]
    /\ UNCHANGED <<g_request_id, g_tmp, g_sent, g_clicks>>
    /\ UNCHANGED OthersG

GuiClick == \E t \in Threads : Click(t)
GuiLoad == \E t \in Threads : LoadRequestId(t)
GuiStore == \E t \in Threads : StoreRequestId(t)
GuiBuild == \E t \in Threads : BuildMessage(t)
GuiEnd == \E t \in Threads : ThreadEnds(t)
GuiNext ==
    \/ GuiClick
    \/ GuiLoad
    \/ GuiStore
    \/ GuiBuild
    \/ GuiEnd
SpecGui == GuiInit /\ [][GuiNext]_vars

\* C28 as stated: the tools/call messages built by the worker threads carry
\* pairwise distinct request ids.
C28_DistinctIdsAcrossThreads ==
    \A i, j \in 1..Len(g_sent) : i # j => g_sent[i].id # g_sent[j].id

-----------------------------------------------------------------------------
(* The SSE wrapper: GET /sse and POST /call are coroutines of one event    *)
(* loop, and each runs MCPServerWrapper.send_message on the one subprocess *)
(* (write, await drain(), await readline()); no lock spans a send.         *)

\* bound on the messages written to the subprocess in a run
MaxRequests == 3

SseInit ==
    /\ e_pc = [h \in Handlers |-> "idle"]
    /\ e_kind = [h \in Handlers |-> "none"]
    /\ e_wrote = [h \in Handlers |-> 0]
    /\ e_got = [h \in Handlers |-> NoLine]
    /\ e_stdin = <<>> /\ e_stdout = <<>>
    /\ e_waiter = "none"
    /\ e_writes = 0
    /\ OldIdle /\ NIdle /\ HIdle /\ TIdle /\ GIdle

\* the message a handler sends: sse_endpoint its own initialize with id 1,
\* call_tool the body of the POST
MessageOf(kind) == IF kind = "sse" THEN "initialize" ELSE "tools/call"

\* a request arrives and its handler runs up to its first await:
\* `self.process.stdin.write(...)`, then `await self.process.stdin.drain()`
SseWrite(h) ==
    /\ e_pc[h] = "idle"
    /\ e_writes < MaxRequests
    /\ \E kind \in {"sse", "call"} :
        /\ e_kind' = [e_kind EXCEPT ![h] = kind]
        /\ e_stdin' = Append(e_stdin, [n |-> e_writes + 1, method |-> MessageOf(kind)])
    /\ e_wrote' = [e_wrote EXCEPT ![h] = e_writes + 1]
    /\ e_writes' = e_writes + 1
    /\ e_got' = [e_got EXCEPT ![h] = NoLine]
    /\ e_pc' = [e_pc EXCEPT ![h] = "drain"]
    /\ UNCHANGED <<e_stdout, e_waiter>>
    /\ UNCHANGED OthersE
\* drain() returns and `await self.process.stdout.readline()` is called: a
\* buffered line is returned at once; with no line the coroutine becomes the
\* reader's waiter, and if another coroutine is the waiter already the
\* StreamReader raises RuntimeError
SseRead(h) ==
    /\ e_pc[h] = "drain"
    /\ IF e_stdout # <<>>
       THEN /\ e_got' = [e_got EXCEPT ![h] = [has |-> "line", n |-> Head(e_stdout).n]]
            /\ e_stdout' = Tail(e_stdout)
            /\ e_pc' = [e_pc EXCEPT ![h] = "done"]
            /\ UNCHANGED e_waiter
       ELSE IF e_waiter = "none"
       THEN /\ e_waiter' = h
            /\ e_pc' = [e_pc EXCEPT ![h] = "waiting"]
            /\ UNCHANGED <<e_got, e_stdout>>
       ELSE /\ e_got' = [e_got EXCEPT ![h] = [has |-> "error"]]
            /\ e_pc' = [e_pc EXCEPT ![h] = "done"]
            /\ UNCHANGED <<e_waiter, e_stdout>>
    /\ UNCHANGED <<e_kind, e_wrote, e_stdin, e_writes>>
    /\ UNCHANGED OthersE
\* a line has arrived and the waiting readline() returns it
SseWake(h) ==
    /\ e_pc[h] = "waiting"
    /\ e_stdout # <<>>
    /\ e_got' = [e_got EXCEPT ![h] = [has |-> "line", n |-> Head(e_stdout).n]]
    /\ e_stdout' = Tail(e_stdout)
    /\ e_waiter' = "none"
    /\ e_pc' = [e_pc EXCEPT ![h] = "done"]
    /\ UNCHANGED <<e_kind, e_wrote, e_stdin, e_writes>>
    /\ UNCHANGED OthersE
\* the handler answers its client: the line as the response, or the error
\* dict of its except block
SseRespond(h) ==
    /\ e_pc[h] = "done"
    /\ e_pc' = [e_pc EXCEPT ![h] = "idle"]
    /\ UNCHANGED <<e_kind, e_wrote, e_got, e_stdin, e_stdout, e_waiter, e_writes>>
    /\ UNCHANGED OthersE
\* the subprocess reads its next line and writes the response to it
SseSubprocessStep ==
    /\ e_stdin # <<>>
    /\ e_stdin' = Tail(e_stdin)
    /\ e_stdout' = Append(e_stdout, [n |-> Head(e_stdin).n])
    /\ UNCHANGED <<e_pc, e_kind, e_wrote, e_got, e_waiter, e_writes>>
    /\ UNCHANGED OthersE

SseWrites == \E h \in Handlers : SseWrite(h)
SseReads == \E h \in Handlers : SseRead(h)
SseWakes == \E h \in Handlers : SseWake(h)
SseResponds == \E h \in Handlers : SseRespond(h)
SseNext ==
    \/ SseWrites
    \/ SseReads
    \/ SseWakes
    \/ SseResponds
    \/ SseSubprocessStep
SpecSse == SseInit /\ [][SseNext]_vars

\* the requests written whose response line no handler has consumed yet
Outstanding == Len(e_stdin) + Len(e_stdout)
\* C27 as stated: at most one request is outstanding on the subprocess at
\* any time, and a handler that has read a line has read the response to
\* the message it wrote.
C27_OneOutstandingOwnResponse ==
    /\ Outstanding <= 1
    /\ \A h \in Handlers :
          (e_pc[h] = "done" /\ e_got[h].has = "line") => e_got[h].n = e_wrote[h]

====
